---------------------------- MODULE Spec2Model ----------------------------
(***************************************************************************)
(* A model of the IBCM (Itty Bitty Computing Machine) crate:               *)
(*   - the instruction codec  (src/src/instruction.rs)                     *)
(*   - the simulator          (src/src/simulator.rs)                       *)
(*   - the assembler          (src/src/asm.rs)                             *)
(* Words are u16 values 0..65535; the accumulator is an i16 and is kept as *)
(* a signed integer, with the `as u16` / `as i16` casts written out.       *)
(***************************************************************************)
EXTENDS Integers, Naturals, Sequences, FiniteSets, TLC

VARIABLES
    \* ---- codec harness: one call of from_u16 / to_u16 and its follow-up
    cTrace,      \* the codec functions applied so far, in order
    cWord,       \* the current u16
    cIns,        \* the current Instruction
    cWord0,      \* the word the harness started from
    cIns0,       \* the instruction the harness started from
    \* ---- struct Simulator
    memory,      \* [u16; 4096], as the map of its non-zero cells
    acc,         \* i16
    ir,          \* u16
    pc,          \* u16
    halted,      \* bool
    len,         \* usize
    input,       \* Box<BufRead>: the lines not yet read
    output,      \* Box<Write>: what has been written, one entry per write
    show_prompt, \* bool
    \* ---- the caller of step()/run()
    mode,        \* "idle", "run" while a run() call is looping, "status" while
                 \* the status command of the debugger is
    ret,         \* what the last finished call returned
    last,        \* what the last step() call did (history)
    prev,        \* what the step() call before that did (history)
    steps,       \* how many step() calls were made so far
    offers,      \* the read_line outcomes the input stream can deliver
    dbg,         \* the status command of the debugger, running or returned
    \* ---- the loaders and writers (from_*, to_*) under their caller
    lTrace,      \* the loader and writer calls made so far, in order
    lArg,        \* what the first constructor call was given
    lFile,       \* what the last to_binary / to_hex call wrote
    \* ---- struct Assembler under assemble()
    aSrc,        \* the source text, as its lines
    aStage,      \* "idle", "parsed" after first_pass, "done" after assemble
    stmts,       \* Vec<(usize, Stmt)>
    labels,      \* HashMap<String, u16>
    aRet,        \* what first_pass / assemble returned
    aAgain       \* what assemble returned when called again with the same text

codecVars == <<cTrace, cWord, cIns, cWord0, cIns0>>
simVars == <<memory, acc, ir, pc, halted, len, input, output, show_prompt>>
envVars == <<mode, ret, last, prev, steps, offers, dbg>>
loadVars == <<lTrace, lArg, lFile>>
asmVars == <<aSrc, aStage, stmts, labels, aRet, aAgain>>
vars == <<codecVars, simVars, envVars, loadVars, asmVars>>

(***************************************************************************)
(* u16 / i16 arithmetic                                                    *)
(***************************************************************************)
WordMod == 65536
SignBit == 32768
MemSize == 4096

Word == 0 .. (WordMod - 1)

\* `x as u16` for an i16 x
AsU16(x) == x % WordMod
\* `x as i16` for a u16 x
AsI16(x) == IF x >= SignBit THEN x - WordMod ELSE x

Pow2(n) == 2 ^ n

\* word >> n
Shr(w, n) == w \div Pow2(n)
\* (word << n) truncated to 16 bits, for n in 0..16: the bits shifted out
\* are dropped first, so that no intermediate value exceeds 16 bits
Shl(w, n) == (w % Pow2(16 - n)) * Pow2(n)

RECURSIVE BitAnd(_, _)
BitAnd(a, b) ==
    IF a = 0 \/ b = 0 THEN 0
    ELSE 2 * BitAnd(a \div 2, b \div 2) + (IF a % 2 = 1 /\ b % 2 = 1 THEN 1 ELSE 0)

RECURSIVE BitOr(_, _)
BitOr(a, b) ==
    IF a = 0 THEN b
    ELSE IF b = 0 THEN a
    ELSE 2 * BitOr(a \div 2, b \div 2) + (IF a % 2 = 1 \/ b % 2 = 1 THEN 1 ELSE 0)

RECURSIVE BitXor(_, _)
BitXor(a, b) ==
    IF a = 0 THEN b
    ELSE IF b = 0 THEN a
    ELSE 2 * BitXor(a \div 2, b \div 2) + (IF a % 2 = b % 2 THEN 0 ELSE 1)

\* !x on a u16 bit pattern
BitNot(a) == (WordMod - 1) - a

(***************************************************************************)
(* enum Instruction.  A value is a record [kind, op, arg]: `op` is the     *)
(* IoOp / ShiftOp of Io / Shift ("-" otherwise) and `arg` the u16 payload  *)
(* (0 for the variants that carry none).                                   *)
(***************************************************************************)
IoOp == {"ReadHex", "ReadChar", "WriteHex", "WriteChar"}
ShiftOp == {"ShiftLeft", "ShiftRight", "RotateLeft", "RotateRight"}
AddrKinds == {"Load", "Store", "Add", "Sub", "And", "Or", "Xor",
              "Jmp", "Jmpe", "Jmpl", "Brl"}
PlainKinds == {"Halt", "Not", "Nop"}

Ins(k, o, a) == [kind |-> k, op |-> o, arg |-> a]

Halt == Ins("Halt", "-", 0)
Not == Ins("Not", "-", 0)
Nop == Ins("Nop", "-", 0)
Io(o) == Ins("Io", o, 0)
Shift(o, n) == Ins("Shift", o, n)
Addr(k, a) == Ins(k, "-", a)

\* Instruction::address  [some, val]: Some(n) or None
address(i) ==
    IF i.kind \in AddrKinds THEN [some |-> TRUE, val |-> i.arg]
    ELSE [some |-> FALSE, val |-> 0]

\* is_jmp counting the instructions that read memory as control flow too
is_jmp_operand(i) == i.kind \in AddrKinds \ {"Store"}

\* Instruction::is_jmp
is_jmp(i) == i.kind \in {"Jmp", "Jmpe", "Jmpl", "Brl"}

\* from_u16 with the shift amount taken from 3 bits instead of 4
from_u16_shift3(word) ==
    LET top == Shr(word, 12)
        sel == BitAnd(Shr(word, 10), 3)
    IN  CASE top = 0 -> Halt
          [] top = 1 -> Io(CASE sel = 0 -> "ReadHex"
                             [] sel = 1 -> "ReadChar"
                             [] sel = 2 -> "WriteHex"
                             [] sel = 3 -> "WriteChar")
          [] top = 2 -> Shift(CASE sel = 0 -> "ShiftLeft"
                                [] sel = 1 -> "ShiftRight"
                                [] sel = 2 -> "RotateLeft"
                                [] sel = 3 -> "RotateRight",
                              BitAnd(word, 7))
          [] top = 3 -> Addr("Load", BitAnd(word, 4095))
          [] top = 4 -> Addr("Store", BitAnd(word, 4095))
          [] top = 5 -> Addr("Add", BitAnd(word, 4095))
          [] top = 6 -> Addr("Sub", BitAnd(word, 4095))
          [] top = 7 -> Addr("And", BitAnd(word, 4095))
          [] top = 8 -> Addr("Or", BitAnd(word, 4095))
          [] top = 9 -> Addr("Xor", BitAnd(word, 4095))
          [] top = 10 -> Not
          [] top = 11 -> Nop
          [] top = 12 -> Addr("Jmp", BitAnd(word, 4095))
          [] top = 13 -> Addr("Jmpe", BitAnd(word, 4095))
          [] top = 14 -> Addr("Jmpl", BitAnd(word, 4095))
          [] top = 15 -> Addr("Brl", BitAnd(word, 4095))

\* Instruction::from_u16
from_u16(word) ==
    LET top == Shr(word, 12)
        sel == BitAnd(Shr(word, 10), 3)
    IN  CASE top = 0 -> Halt
          [] top = 1 -> Io(CASE sel = 0 -> "ReadHex"
                             [] sel = 1 -> "ReadChar"
                             [] sel = 2 -> "WriteHex"
                             [] sel = 3 -> "WriteChar")
          [] top = 2 -> Shift(CASE sel = 0 -> "ShiftLeft"
                                [] sel = 1 -> "ShiftRight"
                                [] sel = 2 -> "RotateLeft"
                                [] sel = 3 -> "RotateRight",
                              BitAnd(word, 15))
          [] top = 3 -> Addr("Load", BitAnd(word, 4095))
          [] top = 4 -> Addr("Store", BitAnd(word, 4095))
          [] top = 5 -> Addr("Add", BitAnd(word, 4095))
          [] top = 6 -> Addr("Sub", BitAnd(word, 4095))
          [] top = 7 -> Addr("And", BitAnd(word, 4095))
          [] top = 8 -> Addr("Or", BitAnd(word, 4095))
          [] top = 9 -> Addr("Xor", BitAnd(word, 4095))
          [] top = 10 -> Not
          [] top = 11 -> Nop
          [] top = 12 -> Addr("Jmp", BitAnd(word, 4095))
          [] top = 13 -> Addr("Jmpe", BitAnd(word, 4095))
          [] top = 14 -> Addr("Jmpl", BitAnd(word, 4095))
          [] top = 15 -> Addr("Brl", BitAnd(word, 4095))

\* to_u16 putting the whole address of a load into the word
to_u16_unmasked(i) ==
    CASE i.kind = "Halt" -> 0
      [] i.kind = "Io" /\ i.op = "ReadHex" -> 4096
      [] i.kind = "Io" /\ i.op = "ReadChar" -> 5120
      [] i.kind = "Io" /\ i.op = "WriteHex" -> 6144
      [] i.kind = "Io" /\ i.op = "WriteChar" -> 7168
      [] i.kind = "Shift" /\ i.op = "ShiftLeft" -> BitOr(8192, BitAnd(i.arg, 15))
      [] i.kind = "Shift" /\ i.op = "ShiftRight" -> BitOr(9216, BitAnd(i.arg, 15))
      [] i.kind = "Shift" /\ i.op = "RotateLeft" -> BitOr(10240, BitAnd(i.arg, 15))
      [] i.kind = "Shift" /\ i.op = "RotateRight" -> BitOr(11264, BitAnd(i.arg, 15))
      [] i.kind = "Load" -> BitOr(12288, i.arg)
      [] i.kind = "Store" -> BitOr(16384, BitAnd(i.arg, 4095))
      [] i.kind = "Add" -> BitOr(20480, BitAnd(i.arg, 4095))
      [] i.kind = "Sub" -> BitOr(24576, BitAnd(i.arg, 4095))
      [] i.kind = "And" -> BitOr(28672, BitAnd(i.arg, 4095))
      [] i.kind = "Or" -> BitOr(32768, BitAnd(i.arg, 4095))
      [] i.kind = "Xor" -> BitOr(36864, BitAnd(i.arg, 4095))
      [] i.kind = "Not" -> 40960
      [] i.kind = "Nop" -> 45056
      [] i.kind = "Jmp" -> BitOr(49152, BitAnd(i.arg, 4095))
      [] i.kind = "Jmpe" -> BitOr(53248, BitAnd(i.arg, 4095))
      [] i.kind = "Jmpl" -> BitOr(57344, BitAnd(i.arg, 4095))
      [] i.kind = "Brl" -> BitOr(61440, BitAnd(i.arg, 4095))

\* to_u16 with brl given the opcode of jmpl
to_u16_brl(i) ==
    CASE i.kind = "Halt" -> 0
      [] i.kind = "Io" /\ i.op = "ReadHex" -> 4096                 \* 0x1000
      [] i.kind = "Io" /\ i.op = "ReadChar" -> 5120                \* 0x1400
      [] i.kind = "Io" /\ i.op = "WriteHex" -> 6144                \* 0x1800
      [] i.kind = "Io" /\ i.op = "WriteChar" -> 7168               \* 0x1c00
      [] i.kind = "Shift" /\ i.op = "ShiftLeft" -> BitOr(8192, BitAnd(i.arg, 15))
      [] i.kind = "Shift" /\ i.op = "ShiftRight" -> BitOr(9216, BitAnd(i.arg, 15))
      [] i.kind = "Shift" /\ i.op = "RotateLeft" -> BitOr(10240, BitAnd(i.arg, 15))
      [] i.kind = "Shift" /\ i.op = "RotateRight" -> BitOr(11264, BitAnd(i.arg, 15))
      [] i.kind = "Load" -> BitOr(12288, BitAnd(i.arg, 4095))
      [] i.kind = "Store" -> BitOr(16384, BitAnd(i.arg, 4095))
      [] i.kind = "Add" -> BitOr(20480, BitAnd(i.arg, 4095))
      [] i.kind = "Sub" -> BitOr(24576, BitAnd(i.arg, 4095))
      [] i.kind = "And" -> BitOr(28672, BitAnd(i.arg, 4095))
      [] i.kind = "Or" -> BitOr(32768, BitAnd(i.arg, 4095))
      [] i.kind = "Xor" -> BitOr(36864, BitAnd(i.arg, 4095))
      [] i.kind = "Not" -> 40960                                   \* 0xa000
      [] i.kind = "Nop" -> 45056                                   \* 0xb000
      [] i.kind = "Jmp" -> BitOr(49152, BitAnd(i.arg, 4095))
      [] i.kind = "Jmpe" -> BitOr(53248, BitAnd(i.arg, 4095))
      [] i.kind = "Jmpl" -> BitOr(57344, BitAnd(i.arg, 4095))
      [] i.kind = "Brl" -> BitOr(57344, BitAnd(i.arg, 4095))

\* Instruction::to_u16
to_u16(i) ==
    CASE i.kind = "Halt" -> 0
      [] i.kind = "Io" /\ i.op = "ReadHex" -> 4096                 \* 0x1000
      [] i.kind = "Io" /\ i.op = "ReadChar" -> 5120                \* 0x1400
      [] i.kind = "Io" /\ i.op = "WriteHex" -> 6144                \* 0x1800
      [] i.kind = "Io" /\ i.op = "WriteChar" -> 7168               \* 0x1c00
      [] i.kind = "Shift" /\ i.op = "ShiftLeft" -> BitOr(8192, BitAnd(i.arg, 15))
      [] i.kind = "Shift" /\ i.op = "ShiftRight" -> BitOr(9216, BitAnd(i.arg, 15))
      [] i.kind = "Shift" /\ i.op = "RotateLeft" -> BitOr(10240, BitAnd(i.arg, 15))
      [] i.kind = "Shift" /\ i.op = "RotateRight" -> BitOr(11264, BitAnd(i.arg, 15))
      [] i.kind = "Load" -> BitOr(12288, BitAnd(i.arg, 4095))
      [] i.kind = "Store" -> BitOr(16384, BitAnd(i.arg, 4095))
      [] i.kind = "Add" -> BitOr(20480, BitAnd(i.arg, 4095))
      [] i.kind = "Sub" -> BitOr(24576, BitAnd(i.arg, 4095))
      [] i.kind = "And" -> BitOr(28672, BitAnd(i.arg, 4095))
      [] i.kind = "Or" -> BitOr(32768, BitAnd(i.arg, 4095))
      [] i.kind = "Xor" -> BitOr(36864, BitAnd(i.arg, 4095))
      [] i.kind = "Not" -> 40960                                   \* 0xa000
      [] i.kind = "Nop" -> 45056                                   \* 0xb000
      [] i.kind = "Jmp" -> BitOr(49152, BitAnd(i.arg, 4095))
      [] i.kind = "Jmpe" -> BitOr(53248, BitAnd(i.arg, 4095))
      [] i.kind = "Jmpl" -> BitOr(57344, BitAnd(i.arg, 4095))
      [] i.kind = "Brl" -> BitOr(61440, BitAnd(i.arg, 4095))


(***************************************************************************)
(* Text.  A string is a sequence of one-character strings.                 *)
(***************************************************************************)
HexDigits == <<"0", "1", "2", "3", "4", "5", "6", "7",
               "8", "9", "a", "b", "c", "d", "e", "f">>
UpperHexDigits == <<"0", "1", "2", "3", "4", "5", "6", "7",
                    "8", "9", "A", "B", "C", "D", "E", "F">>

IsHexDigit(c) == \E i \in 1..16 : HexDigits[i] = c \/ UpperHexDigits[i] = c
\* char::to_digit(16)
HexVal(c) == (CHOOSE i \in 1..16 : HexDigits[i] = c \/ UpperHexDigits[i] = c) - 1

IsSpace(c) == c \in {" ", "\t", "\n", "\r"}

\* the byte of an ASCII character (the characters the model's inputs use)
AsciiChars == <<" ", "+", "0", "1", "2", "3", "4", "5", "6", "7", "8", "9",
                "A", "B", "C", "D", "E", "F", "a", "b", "c", "d", "e", "f",
                "g", "h", "x", "z">>
AsciiCodes == <<32, 43, 48, 49, 50, 51, 52, 53, 54, 55, 56, 57,
                65, 66, 67, 68, 69, 70, 97, 98, 99, 100, 101, 102,
                103, 104, 120, 122>>
ByteOf(c) == AsciiCodes[CHOOSE i \in 1..Len(AsciiChars) : AsciiChars[i] = c]

RECURSIVE TrimStart(_)
TrimStart(s) == IF s # <<>> /\ IsSpace(Head(s)) THEN TrimStart(Tail(s)) ELSE s
RECURSIVE TrimEnd(_)
TrimEnd(s) ==
    IF s # <<>> /\ IsSpace(s[Len(s)]) THEN TrimEnd(SubSeq(s, 1, Len(s) - 1)) ELSE s
\* str::trim
Trim(s) == TrimEnd(TrimStart(s))

RECURSIVE DigitsValue(_, _)
DigitsValue(s, accum) ==
    IF s = <<>> THEN accum ELSE DigitsValue(Tail(s), accum * 16 + HexVal(Head(s)))

\* u16::from_str_radix(s, 16): an optional leading "+", then at least one
\* hexadecimal digit, the value fitting a u16.  [ok, val]
from_str_radix16(s) ==
    LET digits == IF s # <<>> /\ Head(s) = "+" THEN Tail(s) ELSE s
    IN  IF digits = <<>> \/ \E i \in 1..Len(digits) : ~IsHexDigit(digits[i])
        THEN [ok |-> FALSE, val |-> 0]
        ELSE IF DigitsValue(digits, 0) >= WordMod
        THEN [ok |-> FALSE, val |-> 0]
        ELSE [ok |-> TRUE, val |-> DigitsValue(digits, 0)]

\* format!("{:04x}", w) for a 16-bit pattern w
Hex4(w) == << HexDigits[(Shr(w, 12) % 16) + 1], HexDigits[(Shr(w, 8) % 16) + 1],
              HexDigits[(Shr(w, 4) % 16) + 1], HexDigits[(w % 16) + 1] >>

(***************************************************************************)
(* The input stream: a sequence of read_line outcomes, each a line of text *)
(* or a failed read.  An exhausted stream reads as the empty line (EOF).   *)
(***************************************************************************)
Line(t) == [ok |-> TRUE, eof |-> FALSE, text |-> t]
ReadFails == [ok |-> FALSE, eof |-> FALSE, text |-> <<>>]
EndOfStream == [ok |-> TRUE, eof |-> TRUE, text |-> <<>>]

\* BufRead::read_line on a stream in state `inp` when the environment
\* delivers `rd`: at end-of-stream it returns Ok(0) and leaves the buffer
\* empty, whatever the environment offers.  [ok, text, inp]
read_line(inp, rd) ==
    IF inp = "eof" \/ rd.eof THEN [ok |-> TRUE, text |-> <<>>, inp |-> "eof"]
    ELSE [ok |-> rd.ok, text |-> rd.text, inp |-> inp]

\* One entry of the output sink per write!/writeln! call.
Text(t) == [kind |-> "text", text |-> t, code |-> 0]
\* writeln!("{}", b as char)
CharLine(b) == [kind |-> "char", text |-> <<"\n">>, code |-> b]

PromptHex == Text(<<"Enter hexadecimal word: ">>)
PromptChar == Text(<<"Enter ASCII character: ">>)

(***************************************************************************)
(* The memory [u16; 4096].  An image is kept as the finite map of its      *)
(* non-zero cells: Pack turns the array into that map, Mem reads a cell    *)
(* and Put writes one.  Addresses outside 0..4095 have no cell: reading or *)
(* writing one is an evaluation error, as the index panics in the source.  *)
(***************************************************************************)
Addrs == 0 .. (MemSize - 1)

Pack(array) ==
    LET live == {a \in Addrs : array[a] # 0}
    IN  [a \in live |-> array[a]]

\* self.memory[a as usize]
Mem(m, a) ==
    CASE a \in Addrs -> IF a \in DOMAIN m THEN m[a] ELSE 0

\* the store going to the cell after the addressed one
Put_next(m, a, v) ==
    CASE a \in Addrs ->
        LET b == (a + 1) % MemSize
        IN  IF v = 0 THEN [x \in (DOMAIN m) \ {b} |-> m[x]]
            ELSE [x \in (DOMAIN m) \cup {b} |-> IF x = b THEN v ELSE m[x]]

\* self.memory[a as usize] = v
Put(m, a, v) ==
    CASE a \in Addrs ->
        IF v = 0 THEN [x \in (DOMAIN m) \ {a} |-> m[x]]
        ELSE [x \in (DOMAIN m) \cup {a} |-> IF x = a THEN v ELSE m[x]]

(***************************************************************************)
(* struct Simulator, as a record s of its fields.  `env` is what the       *)
(* outside world does during one call: env.rd is the outcome of the        *)
(* read_line the call may make, env.wfail whether its write fails.         *)
(***************************************************************************)
\* Simulator::from_memory
from_memory(mem, n) ==
    [memory |-> mem, acc |-> 0, ir |-> 0, pc |-> 0, halted |-> FALSE,
     len |-> n, input |-> "open", output |-> <<>>, show_prompt |-> TRUE]

\* from_instructions filling the cells after the program with nop words
from_instructions_nopfill(ws) ==
    from_memory(Pack([a \in Addrs |-> IF a < Len(ws) THEN ws[a + 1] ELSE 45056]),
                Len(ws))

\* Simulator::from_instructions, for an input of at most 4096 words
from_instructions(ws) ==
    from_memory(Pack([a \in Addrs |-> IF a < Len(ws) THEN ws[a + 1] ELSE 0]),
                Len(ws))

\* Simulator::set_output (the sink itself is the environment's)
set_output(s, prompt) == [s EXCEPT !.show_prompt = prompt]

\* Simulator::regs
regs(s) == <<s.acc, s.ir, s.pc>>

\* Simulator::instruction_at
instruction_at(s, addr) == from_u16(Mem(s.memory, addr))

\* current_instruction without its bound check, reading the cell at the low
\* 12 bits of the program counter
current_instruction_wrapping(s) ==
    [ok |-> TRUE, ins |-> instruction_at(s, s.pc % MemSize)]

\* Simulator::current_instruction  [ok, ins]
current_instruction(s) ==
    IF s.pc >= MemSize THEN [ok |-> FALSE, ins |-> Halt]
    ELSE [ok |-> TRUE, ins |-> instruction_at(s, s.pc)]

\* Debugger::status up to its loop, called with nargs arguments
\* [done, res, ins, addr]
status_enter(s, nargs) ==
    LET cur == current_instruction(s)
    IN  IF nargs # 0 THEN [done |-> TRUE, res |-> "Debug", ins |-> Halt, addr |-> 0]
        ELSE IF ~cur.ok THEN [done |-> TRUE, res |-> "OutOfBounds", ins |-> Halt, addr |-> 0]
        ELSE [done |-> FALSE, res |-> "-", ins |-> cur.ins, addr |-> s.pc]

\* Debugger::status, one turn of its loop: the test of ins.is_jmp() and the
\* body; unwrap() panics on None and the index of instruction_at on an
\* address outside the memory.  [done, res, ins, addr]
status_turn(s, ins) ==
    IF ~is_jmp(ins) THEN [done |-> TRUE, res |-> "Ok", ins |-> ins, addr |-> 0]
    ELSE IF ~address(ins).some \/ address(ins).val \notin Addrs
    THEN [done |-> TRUE, res |-> "panic", ins |-> ins, addr |-> 0]
    ELSE [done |-> FALSE, res |-> "-", ins |-> instruction_at(s, address(ins).val),
          addr |-> address(ins).val]

\* Simulator::read_hex  [res, val, s]
read_hex(s, env) ==
    IF s.show_prompt /\ env.wfail THEN [res |-> "Io", val |-> 0, s |-> s]
    ELSE
      LET s1 == IF s.show_prompt THEN [s EXCEPT !.output = Append(@, PromptHex)] ELSE s
          rl == read_line(s1.input, env.rd)
          s2 == [s1 EXCEPT !.input = rl.inp]
          hex == Trim(rl.text)
          parsed == from_str_radix16(hex)
      IN  IF ~rl.ok THEN [res |-> "Io", val |-> 0, s |-> s2]
          ELSE IF Len(hex) >= 1 /\ Len(hex) <= 4
          THEN IF parsed.ok THEN [res |-> "Ok", val |-> parsed.val, s |-> s2]
               ELSE [res |-> "UserInput", val |-> 0, s |-> s2]
          ELSE [res |-> "UserInput", val |-> 0, s |-> s2]

\* Simulator::read_u8  [res, val, s]
read_u8(s, env) ==
    IF s.show_prompt /\ env.wfail THEN [res |-> "Io", val |-> 0, s |-> s]
    ELSE
      LET s1 == IF s.show_prompt THEN [s EXCEPT !.output = Append(@, PromptChar)] ELSE s
          rl == read_line(s1.input, env.rd)
          s2 == [s1 EXCEPT !.input = rl.inp]
          tr == Trim(rl.text)
      IN  IF ~rl.ok THEN [res |-> "Io", val |-> 0, s |-> s2]
          ELSE IF Len(tr) = 1 THEN [res |-> "Ok", val |-> ByteOf(tr[1]), s |-> s2]
          ELSE [res |-> "UserInput", val |-> 0, s |-> s2]

\* i16::rotate_left / rotate_right on the bit pattern u
rotate_left(u, n) == BitOr(Shl(u, n % 16), Shr(u, 16 - (n % 16)))
rotate_right(u, n) == BitOr(Shr(u, n % 16), Shl(u, 16 - (n % 16)))

Ok(s) == [err |-> "Ok", s |-> s]
Err(e, s) == [err |-> e, s |-> s]

\* the shiftR arm shifting the accumulator as an i16 (sign-extending)
shift_right_arith(s, n) == Ok([s EXCEPT !.acc = @ \div Pow2(n)])

\* Simulator::execute, arm Shift(ShiftRight, n)
shift_right(s, n) == Ok([s EXCEPT !.acc = AsI16(Shr(AsU16(@), n))])

\* i16::wrapping_add / i16::wrapping_sub
wrapping_add(x, y) == AsI16((AsU16(x) + AsU16(y)) % WordMod)
wrapping_sub(x, y) == AsI16((AsU16(x) - AsU16(y)) % WordMod)

\* the add arm with an addition that saturates at the ends of the i16 range
add_saturating(s, a) ==
    LET sum == s.acc + AsI16(Mem(s.memory, a))
    IN  Ok([s EXCEPT !.acc = IF sum >= SignBit THEN SignBit - 1
                              ELSE IF sum < 0 - SignBit THEN 0 - SignBit
                              ELSE sum])

\* Simulator::execute, arm Add(addr)
add(s, a) == Ok([s EXCEPT !.acc = wrapping_add(@, AsI16(Mem(s.memory, a)))])

\* Simulator::execute, arm Sub(addr)
sub(s, a) == Ok([s EXCEPT !.acc = wrapping_sub(@, AsI16(Mem(s.memory, a)))])

\* Simulator::execute, arm Jmpe(addr)
jmpe(s, a) == Ok(IF s.acc = 0 THEN [s EXCEPT !.pc = a] ELSE s)

\* the jmpl arm jumping on an accumulator that is negative or zero
jmpl_or_zero(s, a) == Ok(IF s.acc <= 0 THEN [s EXCEPT !.pc = a] ELSE s)

\* Simulator::execute, arm Jmpl(addr)
jmpl(s, a) == Ok(IF s.acc < 0 THEN [s EXCEPT !.pc = a] ELSE s)

\* the brl arm saving the address of the brl itself
brl_self(s, a) == Ok([s EXCEPT !.acc = AsI16((s.pc - 1) % WordMod), !.pc = a])

\* Simulator::execute, arm Brl(addr); s.pc is already one past the brl
brl(s, a) == Ok([s EXCEPT !.acc = AsI16(s.pc), !.pc = a])

\* Simulator::execute  [err, s]
execute(s, ins, env) ==
    LET k == ins.kind
        o == ins.op
        a == ins.arg
        u == AsU16(s.acc)
    IN
    IF s.halted THEN Err("Halted", s)
    ELSE CASE k = "Halt" -> Ok([s EXCEPT !.halted = TRUE])
      [] k = "Io" /\ o = "ReadHex" ->
            LET r == read_hex(s, env)
            IN  IF r.res = "Ok" THEN Ok([r.s EXCEPT !.acc = AsI16(r.val)])
                ELSE Err(r.res, r.s)
      [] k = "Io" /\ o = "ReadChar" ->
            LET r == read_u8(s, env)
            IN  IF r.res = "Ok" THEN Ok([r.s EXCEPT !.acc = AsI16(r.val)])
                ELSE Err(r.res, r.s)
      [] k = "Io" /\ o = "WriteHex" ->
            IF env.wfail THEN Err("Io", s)
            ELSE Ok([s EXCEPT !.output = Append(@, Text(Hex4(u) \o <<"\n">>))])
      [] k = "Io" /\ o = "WriteChar" ->
            IF env.wfail THEN Err("Io", s)
            ELSE Ok([s EXCEPT !.output = Append(@, CharLine(u % 256))])
      [] k = "Shift" /\ o = "ShiftLeft" -> Ok([s EXCEPT !.acc = AsI16(Shl(u, a))])
      [] k = "Shift" /\ o = "ShiftRight" -> shift_right(s, a)
      [] k = "Shift" /\ o = "RotateLeft" -> Ok([s EXCEPT !.acc = AsI16(rotate_left(u, a))])
      [] k = "Shift" /\ o = "RotateRight" -> Ok([s EXCEPT !.acc = AsI16(rotate_right(u, a))])
      [] k = "Load" -> Ok([s EXCEPT !.acc = AsI16(Mem(s.memory, a))])
      [] k = "Store" -> Ok([s EXCEPT !.memory = Put(@, a, u)])
      [] k = "Add" -> add(s, a)
      [] k = "Sub" -> sub(s, a)
      [] k = "And" -> Ok([s EXCEPT !.acc = AsI16(BitAnd(u, Mem(s.memory, a)))])
      [] k = "Or" -> Ok([s EXCEPT !.acc = AsI16(BitOr(u, Mem(s.memory, a)))])
      [] k = "Xor" -> Ok([s EXCEPT !.acc = AsI16(BitXor(u, Mem(s.memory, a)))])
      [] k = "Not" -> Ok([s EXCEPT !.acc = AsI16(BitNot(u))])
      [] k = "Nop" -> Ok(s)
      [] k = "Jmp" -> Ok([s EXCEPT !.pc = a])
      [] k = "Jmpe" -> jmpe(s, a)
      [] k = "Jmpl" -> jmpl(s, a)
      [] k = "Brl" -> brl(s, a)

\* step that rewinds the program counter to 0 when it reports OutOfBounds
step_rewind(s, env) ==
    LET cur == current_instruction(s)
        s1 == [s EXCEPT !.pc = (@ + 1) % WordMod]
        ex == execute(s1, cur.ins, env)
    IN  IF ~cur.ok THEN [res |-> "OutOfBounds", s |-> [s EXCEPT !.pc = 0],
                         fetched |-> FALSE]
        ELSE IF ex.err # "Ok" THEN [res |-> ex.err, s |-> ex.s, fetched |-> TRUE]
        ELSE [res |-> IF ex.s.halted THEN "Ok(true)" ELSE "Ok(false)", s |-> ex.s,
              fetched |-> TRUE]

\* step that advances the program counter only once execute has succeeded
step_late_inc(s, env) ==
    LET cur == current_instruction(s)
        ex == execute(s, cur.ins, env)
        s1 == IF ex.s.pc = s.pc THEN [ex.s EXCEPT !.pc = (@ + 1) % WordMod] ELSE ex.s
    IN  IF ~cur.ok THEN [res |-> "OutOfBounds", s |-> s, fetched |-> FALSE]
        ELSE IF ex.err # "Ok" THEN [res |-> ex.err, s |-> ex.s, fetched |-> TRUE]
        ELSE [res |-> IF s1.halted THEN "Ok(true)" ELSE "Ok(false)", s |-> s1,
              fetched |-> TRUE]

\* step that halts the machine when it reports OutOfBounds
step_halt_oob(s, env) ==
    LET cur == current_instruction(s)
        s1 == [s EXCEPT !.pc = (@ + 1) % WordMod]
        ex == execute(s1, cur.ins, env)
    IN  IF ~cur.ok THEN [res |-> "OutOfBounds", s |-> [s EXCEPT !.halted = TRUE],
                         fetched |-> FALSE]
        ELSE IF ex.err # "Ok" THEN [res |-> ex.err, s |-> ex.s, fetched |-> TRUE]
        ELSE [res |-> IF ex.s.halted THEN "Ok(true)" ELSE "Ok(false)", s |-> ex.s,
              fetched |-> TRUE]

\* step whose program counter is 12 bits wide and wraps from 4095 to 0
step_wrap12(s, env) ==
    LET cur == current_instruction(s)
        s1 == [s EXCEPT !.pc = (@ + 1) % MemSize]
        ex == execute(s1, cur.ins, env)
    IN  IF ~cur.ok THEN [res |-> "OutOfBounds", s |-> s, fetched |-> FALSE]
        ELSE IF ex.err # "Ok" THEN [res |-> ex.err, s |-> ex.s, fetched |-> TRUE]
        ELSE [res |-> IF ex.s.halted THEN "Ok(true)" ELSE "Ok(false)", s |-> ex.s,
              fetched |-> TRUE]

\* Simulator::step  [res, s, fetched]; res is "Ok(true)", "Ok(false)" or the
\* ErrorKind, fetched tells whether the call read a word of memory
step(s, env) ==
    LET cur == current_instruction(s)
        s1 == [s EXCEPT !.pc = (@ + 1) % WordMod]
        ex == execute(s1, cur.ins, env)
    IN  IF ~cur.ok THEN [res |-> "OutOfBounds", s |-> s, fetched |-> FALSE]
        ELSE IF ex.err # "Ok" THEN [res |-> ex.err, s |-> ex.s, fetched |-> TRUE]
        ELSE [res |-> IF ex.s.halted THEN "Ok(true)" ELSE "Ok(false)", s |-> ex.s,
              fetched |-> TRUE]

\* run that returns Ok(()) whatever ended its loop
run_swallow(res) ==
    CASE res = "Ok(false)" -> [done |-> FALSE, val |-> "-"]
      [] res = "Ok(true)" -> [done |-> TRUE, val |-> "Ok"]
      [] OTHER -> [done |-> TRUE, val |-> "Ok"]

\* run that goes on calling step() after an OutOfBounds
run_retry(res) ==
    CASE res \in {"Ok(false)", "OutOfBounds"} -> [done |-> FALSE, val |-> "-"]
      [] res = "Ok(true)" -> [done |-> TRUE, val |-> "Ok"]
      [] OTHER -> [done |-> TRUE, val |-> res]

\* Simulator::run, one turn of its loop: what the match on step()'s result
\* does.  [done, val]
run(res) ==
    CASE res = "Ok(false)" -> [done |-> FALSE, val |-> "-"]
      [] res = "Ok(true)" -> [done |-> TRUE, val |-> "Ok"]
      [] OTHER -> [done |-> TRUE, val |-> res]

(***************************************************************************)
(* The machines and environments explored.                                 *)
(***************************************************************************)
MaxProgLen == 2
MaxSteps == 4

\* halt, halt with operand bits (0x0abc), readH, readC, printH, printC,
\* load 1, store 2, nop, jmp 0, jmp fff
ProgWords == {0, 2748, 4096, 5120, 6144, 7168, 12289, 16386, 45056, 49152, 53247}
\* what the last cell (address 4095) holds: halt, readH, nop
TopWords == {0, 4096, 45056}

RECURSIVE SeqsUpTo(_, _)
SeqsUpTo(S, n) ==
    IF n = 0 THEN {<<>>}
    ELSE LET shorter == SeqsUpTo(S, n - 1)
         IN  shorter \cup {Append(q, x) : q \in {r \in shorter : Len(r) = n - 1}, x \in S}

Programs == SeqsUpTo(ProgWords, MaxProgLen)

\* the word sequence handed to from_instructions: the program alone, or a
\* full-length image whose last word is `top`
Image(prog, top) ==
    IF top = 0 THEN prog
    ELSE prog \o [i \in 1 .. (MemSize - Len(prog)) |->
                    IF i = MemSize - Len(prog) THEN top ELSE 0]

InputLines == { <<"1", "2", "a", "b">>, <<"8", "0", "0", "0">>, <<" ", "7", " ">>,
                <<"h">>, <<>>, <<"1", "2", "3", "4", "5">> }
ReadOutcomes == {Line(t) : t \in InputLines} \cup {ReadFails, EndOfStream}

Quiet == [rd |-> EndOfStream, wfail |-> FALSE]

\* the environments that make a difference to a step() call on s
Envs(s) ==
    LET cur == current_instruction(s)
    IN  IF ~cur.ok \/ s.halted \/ cur.ins.kind # "Io" THEN {Quiet}
        ELSE IF cur.ins.op \in {"WriteHex", "WriteChar"}
        THEN {[rd |-> EndOfStream, wfail |-> w] : w \in BOOLEAN}
        ELSE {[rd |-> r, wfail |-> FALSE] : r \in offers}
             \cup (IF s.show_prompt THEN {[rd |-> EndOfStream, wfail |-> TRUE]} ELSE {})

Sim == [memory |-> memory, acc |-> acc, ir |-> ir, pc |-> pc, halted |-> halted,
        len |-> len, input |-> input, output |-> output, show_prompt |-> show_prompt]

SetSim(s) ==
    /\ memory' = s.memory
    /\ acc' = s.acc
    /\ ir' = s.ir
    /\ pc' = s.pc
    /\ halted' = s.halted
    /\ len' = s.len
    /\ input' = s.input
    /\ output' = s.output
    /\ show_prompt' = s.show_prompt

IsSim(s) ==
    /\ memory = s.memory
    /\ acc = s.acc
    /\ ir = s.ir
    /\ pc = s.pc
    /\ halted = s.halted
    /\ len = s.len
    /\ input = s.input
    /\ output = s.output
    /\ show_prompt = s.show_prompt

\* ret: the call, its result ("-" while run() loops), the step() calls it made;
\* for run() also the program counter it started from and whether one of its
\* steps took a jump
NoCall == [call |-> "none", res |-> "-", n |-> 0]
NoStep == [res |-> "-", fetched |-> FALSE, pc0 |-> 0, word0 |-> 0, acc0 |-> 0,
           halted0 |-> FALSE, ir0 |-> 0, changed |-> {}, inRun |-> FALSE,
           written |-> {}]

\* the record of a step() call that took s to r.s and returned r.res; written
\* collects the cells that this call and the calls before it have changed
StepRecord(s, r, inRun) ==
    [res |-> r.res, fetched |-> r.fetched, pc0 |-> s.pc,
     word0 |-> IF s.pc < MemSize THEN Mem(s.memory, s.pc) ELSE 0,
     acc0 |-> s.acc, halted0 |-> s.halted, ir0 |-> s.ir,
     changed |-> {a \in (DOMAIN s.memory) \cup (DOMAIN r.s.memory) :
                     Mem(r.s.memory, a) # Mem(s.memory, a)},
     inRun |-> inRun,
     written |-> last.written \cup {a \in (DOMAIN s.memory) \cup (DOMAIN r.s.memory) :
                                       Mem(r.s.memory, a) # Mem(s.memory, a)}]

\* the step() call recorded as c took a jump: it executed a jmp or a brl, or
\* a jmpe or jmpl whose condition held
JumpTaken(c) ==
    /\ c.fetched
    /\ ~c.halted0
    /\ \/ from_u16(c.word0).kind \in {"Jmp", "Brl"}
       \/ from_u16(c.word0).kind = "Jmpe" /\ c.acc0 = 0
       \/ from_u16(c.word0).kind = "Jmpl" /\ c.acc0 < 0

CodecIdle ==
    /\ cTrace = <<>>
    /\ cWord = 0
    /\ cIns = Halt
    /\ cWord0 = 0
    /\ cIns0 = Halt

\* dbg: the result of the status command ("-" while its loop runs), the
\* instruction it shows, the address it read it from, and whether the
\* number of "-->" lines it has printed is odd
NoStatus == [res |-> "none", ins |-> Halt, addr |-> 0, odd |-> FALSE]

SimInit(ws, prompt) ==
    /\ \E s \in {set_output(from_instructions(ws), prompt)} : IsSim(s)
    /\ dbg = NoStatus
    /\ mode = "idle"
    /\ ret = NoCall
    /\ last = NoStep
    /\ prev = NoStep
    /\ steps = 0

(***************************************************************************)
(* The simulator under its caller: step() calls and run() calls.           *)
(***************************************************************************)
SimIdle == SimInit(<<>>, TRUE) /\ offers = {}

NoData == [kind |-> "none", data |-> <<>>]

LoadIdle ==
    /\ lTrace = <<>>
    /\ lArg = NoData
    /\ lFile = NoData

NoResult == [res |-> "-", msg |-> "-", line |-> 0, data |-> <<>>]
NoProgram == [res |-> "-", msg |-> "-", line |-> 0, data |-> <<>>, labels |-> <<>>]

AsmIdle ==
    /\ aSrc = <<>>
    /\ aStage = "idle"
    /\ stmts = <<>>
    /\ labels = <<>>
    /\ aRet = NoResult
    /\ aAgain = NoProgram

Init ==
    /\ CodecIdle
    /\ LoadIdle
    /\ AsmIdle
    /\ offers = ReadOutcomes
    /\ \E prog \in Programs, top \in TopWords, prompt \in BOOLEAN :
          \E ws \in {Image(prog, top)} : SimInit(ws, prompt)

\* a call of Simulator::step
Step ==
    /\ mode = "idle"
    /\ steps < MaxSteps
    /\ \E env \in Envs(Sim) : \E r \in {step(Sim, env)} :
          /\ SetSim(r.s)
          /\ ret' = [call |-> "step", res |-> r.res, n |-> 1]
          /\ last' = StepRecord(Sim, r, FALSE)
    /\ prev' = last
    /\ steps' = steps + 1
    /\ UNCHANGED <<mode, offers, dbg, codecVars, loadVars, asmVars>>

\* a call of Simulator::run enters its loop
Run ==
    /\ mode = "idle"
    /\ steps < MaxSteps
    /\ mode' = "run"
    /\ ret' = [call |-> "run", res |-> "-", n |-> 0, pc0 |-> pc, jumped |-> FALSE]
    /\ UNCHANGED <<simVars, last, prev, steps, offers, dbg, codecVars, loadVars, asmVars>>

\* one turn of the loop of Simulator::run
RunTurn ==
    /\ mode = "run"
    /\ steps < MaxSteps
    /\ \E env \in Envs(Sim) : \E r \in {step(Sim, env)} : \E m \in {run(r.res)} :
          /\ SetSim(r.s)
          /\ mode' = IF m.done THEN "idle" ELSE "run"
          /\ ret' = [call |-> "run", res |-> m.val, n |-> ret.n + 1, pc0 |-> ret.pc0,
                     jumped |-> ret.jumped \/ JumpTaken(StepRecord(Sim, r, TRUE))]
          /\ last' = StepRecord(Sim, r, TRUE)
    /\ prev' = last
    /\ steps' = steps + 1
    /\ UNCHANGED <<offers, dbg, codecVars, loadVars, asmVars>>

Next == Step \/ Run \/ RunTurn

Spec == Init /\ [][Next]_vars

(***************************************************************************)
(* The debugger's status command on a simulator that is stepped and run:   *)
(* programs of jumps and branches, with chains and cycles of targets.      *)
(***************************************************************************)
\* halt, load 1, nop, jmp 0, jmp 1, jmp fff, jmpe 1, jmpl 0, brl 2
ChaseWords == {0, 12289, 45056, 49152, 49153, 53247, 53249, 57344, 61442}
\* the word at address 4095: halt or jmp fff
ChaseTops == {0, 53247}
ChasePrograms == SeqsUpTo(ChaseWords, MaxProgLen)

StatusInit ==
    /\ CodecIdle
    /\ LoadIdle
    /\ AsmIdle
    /\ offers = {}
    /\ \E prog \in ChasePrograms, top \in ChaseTops :
          \E ws \in {Image(prog, top)} : SimInit(ws, TRUE)

\* the status command is entered
Status ==
    /\ mode = "idle"
    /\ \E nargs \in {0, 1} : \E r \in {status_enter(Sim, nargs)} :
          /\ dbg' = [res |-> r.res, ins |-> r.ins, addr |-> r.addr, odd |-> FALSE]
          /\ mode' = IF r.done THEN "idle" ELSE "status"
    /\ UNCHANGED <<simVars, ret, last, prev, steps, offers, codecVars, loadVars, asmVars>>

\* one turn of the loop of the status command
StatusTurn ==
    /\ mode = "status"
    /\ \E r \in {status_turn(Sim, dbg.ins)} :
          /\ dbg' = IF r.done THEN [dbg EXCEPT !.res = r.res]
                    ELSE [res |-> r.res, ins |-> r.ins, addr |-> r.addr, odd |-> ~dbg.odd]
          /\ mode' = IF r.done THEN "idle" ELSE "status"
    /\ UNCHANGED <<simVars, ret, last, prev, steps, offers, codecVars, loadVars, asmVars>>

StatusNext == Step \/ Run \/ RunTurn \/ Status \/ StatusTurn

\* the loop of status is never suspended: its next turn is taken
StatusSpec == StatusInit /\ [][StatusNext]_vars /\ WF_vars(StatusTurn)

(***************************************************************************)
(* The simulator on prepared programs, under the same step() and run()     *)
(* calls.  An arithmetic program loads a word, applies one instruction to  *)
(* it, then a second one:                                                  *)
(*     0: load 6    1: first    2: second    3: halt                       *)
(*     4: store 9   5: halt     6: a         7: b        8: 0     9: 0     *)
(* The input-output program is readH, printH, halt, fed one line.          *)
(***************************************************************************)
\* the words loaded into the accumulator
AccWords == {0, 1, 16, 16384, 32767, 32768, 49167, 65535}
\* the words used as the operand at address 7
OperandWords == {1, 15, 32768, 65535}

\* the instruction at address 1, with the operand it finds at address 7
ArithCases ==
    {[ins |-> to_u16(Shift(o, n)), b |-> 0] : o \in ShiftOp, n \in 0 .. 15}
    \cup {[ins |-> to_u16(Addr(k, 7)), b |-> b] :
             k \in {"Add", "Sub", "And", "Or", "Xor"}, b \in OperandWords}
    \cup {[ins |-> to_u16(Addr(k, 4)), b |-> 0] : k \in {"Jmpe", "Jmpl", "Brl"}}
    \cup {[ins |-> to_u16(Not), b |-> 0]}

\* the instruction at address 2: store 8, jmpe 4, jmpl 4, brl 4
SecondWords == {to_u16(Addr(k, 4)) : k \in {"Jmpe", "Jmpl", "Brl"}}
               \cup {to_u16(Addr("Store", 8))}

ArithProgram(a, c, second) ==
    << to_u16(Addr("Load", 6)), c.ins, second, to_u16(Halt),
       to_u16(Addr("Store", 9)), to_u16(Halt), a, c.b, 0, 0 >>

\* readH, printH, halt
EchoProgram == << to_u16(Io("ReadHex")), to_u16(Io("WriteHex")), to_u16(Halt) >>

\* the bytes whose pairs make the words fed to readH: every hexadecimal
\* digit in either half, and the ends of the signed range
EchoBytes == {0, 1, 18, 35, 52, 69, 86, 103, 120, 127, 128, 137, 154, 171, 188,
              205, 222, 239, 240, 255}
EchoWords == {h * 256 + l : h \in EchoBytes, l \in EchoBytes}

\* lines that are not one to four hexadecimal digits once trimmed
BadHexLines == { <<"\n">>, <<>>, <<" ", "\n">>, <<"1", "2", "3", "4", "5", "\n">>,
                 <<"1", "2", "g", "4", "\n">>, <<"x", "\n">>, <<"+", "7", "\n">>,
                 <<"+", "\n">>, <<"0", "0", "0", "0", "1", "\n">> }
\* lines of one to four digits that are not the {:04x} form of their value
LooseHexLines == { <<"7", "\n">>, <<" ", "7", " ", "\n">>, <<"A", "B", "C", "D", "\n">>,
                   <<"1", "2", "a", "b">> }
EchoLines == {Hex4(v) \o <<"\n">> : v \in EchoWords} \cup BadHexLines \cup LooseHexLines

ArithInit ==
    /\ \E a \in AccWords, c \in ArithCases, second \in SecondWords :
          \E ws \in {ArithProgram(a, c, second)} : SimInit(ws, TRUE)
    /\ offers = {}

EchoInit ==
    /\ \E prompt \in BOOLEAN : SimInit(EchoProgram, prompt)
    /\ \E l \in EchoLines : offers = {Line(l)}

ExecInit ==
    /\ CodecIdle
    /\ LoadIdle
    /\ AsmIdle
    /\ (ArithInit \/ EchoInit)

ExecSpec == ExecInit /\ [][Next]_vars

(***************************************************************************)
(* The loaders and writers.  A constructor returns [res, s]: res is "Ok"   *)
(* and s the new Simulator, or res is the ErrorKind (or "panic") and s is  *)
(* the simulator there was before.  The readers and writers are in-memory  *)
(* buffers, which do not fail.                                             *)
(***************************************************************************)
Loaded(s) == [res |-> "Ok", s |-> s]
Refused(e, s) == [res |-> e, s |-> s]

\* from_instructions refusing an input of 4096 words as well
load_instructions_4095(ws, old) ==
    IF Len(ws) >= MemSize THEN Refused("ProgramTooLong", old)
    ELSE Loaded(from_instructions(ws))

\* Simulator::from_instructions with its length check
load_instructions(ws, old) ==
    IF Len(ws) > MemSize THEN Refused("ProgramTooLong", old)
    ELSE Loaded(from_instructions(ws))

\* Simulator::from_binary.  The loop takes the bytes in pairs: the first of
\* a pair goes to the low half of data[i], the second to the high half and
\* moves i on.  A last unpaired byte stays in the low half of data[i]
\* without moving i.  A byte that arrives with i = 4096, which is byte 8193,
\* ends the call with ProgramTooLong.
from_binary(bytes, old) ==
    LET n == Len(bytes)
        i == n \div 2
        data == [a \in Addrs |->
                    IF 2 * a + 2 <= n THEN BitOr(bytes[2 * a + 1], Shl(bytes[2 * a + 2], 8))
                    ELSE IF 2 * a + 1 = n THEN bytes[n]
                    ELSE 0]
    IN  IF n > 2 * MemSize THEN Refused("ProgramTooLong", old)
        ELSE Loaded(from_memory(Pack(data), i))

\* str::starts_with("//")
IsComment(l) == Len(l) >= 2 /\ l[1] = "/" /\ l[2] = "/"

\* what the loop of from_hex does with the k-th line that holds a word:
\* the slice &l[..4] panics on a shorter line, from_str_radix refuses a
\* slice that is not a hexadecimal word, and only then is i tested
hex_line(l, k) ==
    IF Len(l) < 4 THEN [res |-> "panic", word |-> 0]
    ELSE LET parsed == from_str_radix16(SubSeq(l, 1, 4))
         IN  IF ~parsed.ok THEN [res |-> "UserInput", word |-> 0]
             ELSE IF k - 1 >= MemSize THEN [res |-> "ProgramTooLong", word |-> 0]
             ELSE [res |-> "Ok", word |-> parsed.val]

\* Simulator::from_hex on the lines of its input (BufRead::lines): blank
\* lines and comment lines are passed over, the first line that fails ends
\* the call
from_hex(lines, old) ==
    LET trimmed == [j \in 1 .. Len(lines) |-> Trim(lines[j])]
        held == SelectSeq(trimmed, LAMBDA l : ~(l = <<>> \/ IsComment(l)))
        done == [k \in 1 .. Len(held) |-> hex_line(held[k], k)]
        bad == {k \in 1 .. Len(held) : done[k].res # "Ok"}
        first == CHOOSE k \in bad : \A x \in bad : k <= x
        data == [a \in Addrs |-> IF a < Len(held) THEN done[a + 1].word ELSE 0]
    IN  IF bad # {} THEN Refused(done[first].res, old)
        ELSE Loaded(from_memory(Pack(data), Len(held)))

\* to_binary writing the high byte of each word first
to_binary_be(s) ==
    [j \in 1 .. (2 * s.len) |->
        LET w == Mem(s.memory, (j - 1) \div 2)
        IN  IF j % 2 = 1 THEN BitAnd(Shr(w, 8), 255) ELSE BitAnd(w, 255)]

\* Simulator::to_binary: the bytes written
to_binary(s) ==
    [j \in 1 .. (2 * s.len) |->
        LET w == Mem(s.memory, (j - 1) \div 2)
        IN  IF j % 2 = 1 THEN BitAnd(w, 255) ELSE BitAnd(Shr(w, 8), 255)]

\* to_hex writing every cell up to the last one that is not zero
to_hex_nonzero(s) ==
    LET top == CHOOSE n \in s.len .. MemSize :
                   /\ \A a \in DOMAIN s.memory : a < n
                   /\ n = s.len \/ (n - 1) \in DOMAIN s.memory
    IN  [j \in 1 .. top |-> Hex4(Mem(s.memory, j - 1)) \o <<"\n">>]

\* Simulator::to_hex: the lines written, one per writeln!
to_hex(s) == [j \in 1 .. s.len |-> Hex4(Mem(s.memory, j - 1)) \o <<"\n">>]

\* the bytes tried in binary inputs
ByteValues == {0, 1, 16, 171, 255}
BinaryInputs == SeqsUpTo(ByteValues, 2 * MaxProgLen)
\* a binary input of n bytes, for n around the 8192-byte limit
LongBinary(n) == [j \in 1 .. n |-> IF j \in {1, n - 1, n} THEN 171 ELSE 0]
LongBinaries == {LongBinary(n) : n \in {8191, 8192, 8193, 8194}}

\* the lines tried in hexadecimal inputs
HexFileLines ==
    { <<"1", "0", "0", "0">>, <<"1", "8", "0", "0">>, <<"A", "b", "c", "d">>,
      <<" ", "1", "8", "0", "0", " ", " ", "/", "/", " ", "x">>,
      <<"/", "/", " ", "a">>, <<>>, <<" ", "\t">>,
      <<"1", "2">>, <<"z", "z", "z", "z">>, <<"+", "1", "2", "3">>,
      <<"1", "2", "3", "4", "5">> }
HexInputs == SeqsUpTo(HexFileLines, MaxProgLen)
\* hexadecimal inputs around the 4096-word limit: n lines "0000" closed by
\* "b000", alone or followed by a comment line
LongHex(n) == [j \in 1 .. n |-> IF j = n THEN <<"b", "0", "0", "0">>
                                ELSE <<"0", "0", "0", "0">>]
LongHexes == {LongHex(4096), LongHex(4097), LongHex(4096) \o << <<"/", "/">> >>}

\* word inputs around the 4096-word limit
LongPrograms == {Image(<<>>, 45056), Image(<<>>, 45056) \o <<1>>}

\* a simulator has been constructed: the loader called did not fail
Constructed ==
    /\ lTrace # <<>>
    /\ ret.call \in {"from_instructions", "from_binary", "from_hex"} => ret.res = "Ok"

\* the caller's record of a loader or writer call
Returned(call, res) == [call |-> call, res |-> res, n |-> 0]

LoadInit ==
    /\ CodecIdle
    /\ SimIdle
    /\ LoadIdle
    /\ AsmIdle

\* a call of Simulator::from_instructions
FromInstructions ==
    /\ lTrace = <<>>
    /\ \E ws \in Programs \cup LongPrograms :
          \E r \in {load_instructions(ws, Sim)} :
             /\ SetSim(r.s)
             /\ ret' = Returned("from_instructions", r.res)
             /\ lArg' = [kind |-> "words", data |-> ws]
    /\ lTrace' = <<"from_instructions">>
    /\ UNCHANGED <<mode, last, prev, steps, offers, dbg, lFile, codecVars, asmVars>>

\* a call of Simulator::from_binary, on fresh bytes or on the bytes that
\* to_binary has just written
FromBinary ==
    \/ /\ lTrace = <<>>
       /\ \E bytes \in BinaryInputs \cup LongBinaries :
             \E r \in {from_binary(bytes, Sim)} :
                /\ SetSim(r.s)
                /\ ret' = Returned("from_binary", r.res)
                /\ lArg' = [kind |-> "bytes", data |-> bytes]
       /\ lTrace' = <<"from_binary">>
       /\ UNCHANGED <<mode, last, prev, steps, offers, dbg, lFile, codecVars, asmVars>>
    \/ /\ Len(lTrace) = 2
       /\ lTrace[2] = "to_binary"
       /\ \E r \in {from_binary(lFile.data, Sim)} :
             /\ SetSim(r.s)
             /\ ret' = Returned("from_binary", r.res)
       /\ lTrace' = Append(lTrace, "from_binary")
       /\ UNCHANGED <<mode, last, prev, steps, offers, dbg, lArg, lFile, codecVars, asmVars>>

\* a call of Simulator::from_hex
FromHex ==
    /\ lTrace = <<>>
    /\ \E lines \in HexInputs \cup LongHexes :
          \E r \in {from_hex(lines, Sim)} :
             /\ SetSim(r.s)
             /\ ret' = Returned("from_hex", r.res)
             /\ lArg' = [kind |-> "lines", data |-> lines]
    /\ lTrace' = <<"from_hex">>
    /\ UNCHANGED <<mode, last, prev, steps, offers, dbg, lFile, codecVars, asmVars>>

\* a call of Simulator::to_binary on the simulator just constructed
ToBinary ==
    /\ mode = "idle"
    /\ Len(lTrace) = 1
    /\ Constructed
    /\ lFile' = [kind |-> "bytes", data |-> to_binary(Sim)]
    /\ lTrace' = Append(lTrace, "to_binary")
    /\ ret' = Returned("to_binary", "Ok")
    /\ UNCHANGED <<simVars, mode, last, prev, steps, offers, dbg, lArg, codecVars, asmVars>>

\* a call of Simulator::to_hex on the simulator just constructed
ToHex ==
    /\ mode = "idle"
    /\ Len(lTrace) = 1
    /\ Constructed
    /\ lFile' = [kind |-> "lines", data |-> to_hex(Sim)]
    /\ lTrace' = Append(lTrace, "to_hex")
    /\ ret' = Returned("to_hex", "Ok")
    /\ UNCHANGED <<simVars, mode, last, prev, steps, offers, dbg, lArg, codecVars, asmVars>>

LoadNext == FromInstructions \/ FromBinary \/ FromHex \/ ToBinary \/ ToHex

LoadSpec == LoadInit /\ [][LoadNext]_vars

(***************************************************************************)
(* A simulator that is stepped and then written out: programs that store   *)
(* below and above their own length.                                       *)
(***************************************************************************)
\* halt, load 1, store 0, store 2, nop
DumpWords == {0, 12289, 16384, 16386, 45056}
\* load 3, store 4, store 2 and the word 0x0abc, which is data and a halt
StoreProgram == <<12291, 16388, 16386, 2748>>
DumpPrograms == SeqsUpTo(DumpWords, MaxProgLen) \cup {StoreProgram}

DumpInit ==
    /\ CodecIdle
    /\ AsmIdle
    /\ offers = {}
    /\ lTrace = <<"from_instructions">>
    /\ lFile = NoData
    /\ \E ws \in DumpPrograms :
          /\ SimInit(ws, TRUE)
          /\ lArg = [kind |-> "words", data |-> ws]

DumpNext == Step \/ Run \/ RunTurn \/ ToBinary \/ ToHex

DumpSpec == DumpInit /\ [][DumpNext]_vars

(***************************************************************************)
(* The assembler.  A source is the sequence of its lines (BufRead::lines), *)
(* a line a sequence of characters.  A statement is a record               *)
(* [line, kind, instr, some, text]: kind is "Instr" or "Data", some tells  *)
(* whether an argument was given and text is that argument.  The label     *)
(* table is a function from label names to u16 positions.                  *)
(***************************************************************************)
U16Max == 65535

DecDigits == <<"0", "1", "2", "3", "4", "5", "6", "7", "8", "9">>
IsDecDigit(c) == \E i \in 1 .. 10 : DecDigits[i] = c

\* the value of a run of decimal digits; once past the u16 range it stays there
RECURSIVE DecValue(_, _)
DecValue(s, accum) ==
    IF s = <<>> \/ accum > U16Max THEN accum
    ELSE DecValue(Tail(s), accum * 10 + ((CHOOSE i \in 1 .. 10 : DecDigits[i] = Head(s)) - 1))

\* str::parse::<u16>: an optional leading "+", then at least one decimal
\* digit, the value fitting a u16.  [ok, val]
parse_u16(s) ==
    LET digits == IF s # <<>> /\ Head(s) = "+" THEN Tail(s) ELSE s
    IN  IF digits = <<>> \/ \E i \in 1 .. Len(digits) : ~IsDecDigit(digits[i])
        THEN [ok |-> FALSE, val |-> 0]
        ELSE IF DecValue(digits, 0) > U16Max
        THEN [ok |-> FALSE, val |-> 0]
        ELSE [ok |-> TRUE, val |-> DecValue(digits, 0)]

\* the least element of a non-empty set of numbers
Least(S) == CHOOSE x \in S : \A y \in S : x <= y

\* l.find("//") and the cut &l[..n]: the line without its comment
strip_comment(l) ==
    LET at == {i \in 1 .. (Len(l) - 1) : l[i] = "/" /\ l[i + 1] = "/"}
    IN  IF at = {} THEN l ELSE SubSeq(l, 1, Least(at) - 1)

\* str::split_whitespace: the maximal runs of non-whitespace, in order
RECURSIVE split_whitespace(_)
split_whitespace(l) ==
    LET s == TrimStart(l)
        gaps == {i \in 1 .. Len(s) : IsSpace(s[i])}
        n == IF gaps = {} THEN Len(s) ELSE Least(gaps) - 1
    IN  IF s = <<>> THEN <<>>
        ELSE <<SubSeq(s, 1, n)>> \o split_whitespace(SubSeq(s, n + 1, Len(s)))

\* part.find(':'), as a 1-based position, 0 when there is none
find_colon(part) ==
    LET at == {i \in 1 .. Len(part) : part[i] = ":"}
    IN  IF at = {} THEN 0 ELSE Least(at)

Instr(n, ins, some, text) ==
    [line |-> n, kind |-> "Instr", instr |-> ins, some |-> some, text |-> text]
Data(n, text) ==
    [line |-> n, kind |-> "Data", instr |-> Halt, some |-> TRUE, text |-> text]

\* get_shift_amt taking 16 for an amount as well
get_shift_amt_16(some, arg) ==
    IF ~some THEN [res |-> "Asm", msg |-> "must specify amount to shift", amt |-> 0]
    ELSE IF ~parse_u16(arg).ok
    THEN [res |-> "Asm", msg |-> "invalid shift amount", amt |-> 0]
    ELSE IF parse_u16(arg).val > 16
    THEN [res |-> "Asm", msg |-> "invalid shift amount (must be between 0 and 15, inclusive)",
          amt |-> 0]
    ELSE [res |-> "Ok", msg |-> "-", amt |-> parse_u16(arg).val]

\* get_shift_amt  [res, msg, amt]
get_shift_amt(some, arg) ==
    IF ~some THEN [res |-> "Asm", msg |-> "must specify amount to shift", amt |-> 0]
    ELSE IF ~parse_u16(arg).ok
    THEN [res |-> "Asm", msg |-> "invalid shift amount", amt |-> 0]
    ELSE IF parse_u16(arg).val >= 16
    THEN [res |-> "Asm", msg |-> "invalid shift amount (must be between 0 and 15, inclusive)",
          amt |-> 0]
    ELSE [res |-> "Ok", msg |-> "-", amt |-> parse_u16(arg).val]

\* the mnemonics of get_stmt that take no shift amount, with the instruction
\* each stands for (address 0 until the second pass)
IsPlainMnemonic(instr) ==
    instr \in {<<"h", "a", "l", "t">>,
               <<"r", "e", "a", "d", "H">>,
               <<"r", "e", "a", "d", "C">>,
               <<"p", "r", "i", "n", "t", "H">>,
               <<"p", "r", "i", "n", "t", "C">>,
               <<"l", "o", "a", "d">>,
               <<"s", "t", "o", "r", "e">>,
               <<"a", "d", "d">>,
               <<"s", "u", "b">>,
               <<"a", "n", "d">>,
               <<"o", "r">>,
               <<"x", "o", "r">>,
               <<"n", "o", "t">>,
               <<"n", "o", "p">>,
               <<"j", "m", "p">>,
               <<"j", "m", "p", "e">>,
               <<"j", "m", "p", "l">>,
               <<"b", "r", "l">>}
PlainMnemonic(instr) ==
    CASE instr = <<"h", "a", "l", "t">> -> Halt
      [] instr = <<"r", "e", "a", "d", "H">> -> Io("ReadHex")
      [] instr = <<"r", "e", "a", "d", "C">> -> Io("ReadChar")
      [] instr = <<"p", "r", "i", "n", "t", "H">> -> Io("WriteHex")
      [] instr = <<"p", "r", "i", "n", "t", "C">> -> Io("WriteChar")
      [] instr = <<"l", "o", "a", "d">> -> Addr("Load", 0)
      [] instr = <<"s", "t", "o", "r", "e">> -> Addr("Store", 0)
      [] instr = <<"a", "d", "d">> -> Addr("Add", 0)
      [] instr = <<"s", "u", "b">> -> Addr("Sub", 0)
      [] instr = <<"a", "n", "d">> -> Addr("And", 0)
      [] instr = <<"o", "r">> -> Addr("Or", 0)
      [] instr = <<"x", "o", "r">> -> Addr("Xor", 0)
      [] instr = <<"n", "o", "t">> -> Not
      [] instr = <<"n", "o", "p">> -> Nop
      [] instr = <<"j", "m", "p">> -> Addr("Jmp", 0)
      [] instr = <<"j", "m", "p", "e">> -> Addr("Jmpe", 0)
      [] instr = <<"j", "m", "p", "l">> -> Addr("Jmpl", 0)
      [] instr = <<"b", "r", "l">> -> Addr("Brl", 0)

\* the shift mnemonics of get_stmt
IsShiftMnemonic(instr) ==
    instr \in {<<"s", "h", "i", "f", "t", "L">>,
               <<"s", "h", "i", "f", "t", "R">>,
               <<"r", "o", "t", "L">>,
               <<"r", "o", "t", "R">>}
ShiftMnemonic(instr) ==
    CASE instr = <<"s", "h", "i", "f", "t", "L">> -> "ShiftLeft"
      [] instr = <<"s", "h", "i", "f", "t", "R">> -> "ShiftRight"
      [] instr = <<"r", "o", "t", "L">> -> "RotateLeft"
      [] instr = <<"r", "o", "t", "R">> -> "RotateRight"

\* get_stmt refusing an operand the instruction does not take, and the lack
\* of one it needs, as the statement is read
get_stmt_arity(instr, some, arg, n) ==
    IF instr = <<"d", "w">>
    THEN IF some THEN [res |-> "Ok", msg |-> "-", stmt |-> Data(n, arg)]
         ELSE [res |-> "Asm", msg |-> "expected data declaration after 'dw'",
               stmt |-> Data(n, <<>>)]
    ELSE IF IsShiftMnemonic(instr)
    THEN LET amt == get_shift_amt(some, arg)
         IN  [res |-> amt.res, msg |-> amt.msg,
              stmt |-> Instr(n, Shift(ShiftMnemonic(instr), amt.amt), some, arg)]
    ELSE IF IsPlainMnemonic(instr)
    THEN IF (PlainMnemonic(instr).kind \in AddrKinds) = some
         THEN [res |-> "Ok", msg |-> "-", stmt |-> Instr(n, PlainMnemonic(instr), some, arg)]
         ELSE [res |-> "Asm",
               msg |-> IF some THEN "unexpected argument to" ELSE "expected argument to",
               stmt |-> Data(n, <<>>)]
    ELSE [res |-> "Asm", msg |-> "unknown instruction", stmt |-> Data(n, <<>>)]

\* get_stmt  [res, msg, stmt]
get_stmt(instr, some, arg, n) ==
    IF instr = <<"d", "w">>
    THEN IF some THEN [res |-> "Ok", msg |-> "-", stmt |-> Data(n, arg)]
         ELSE [res |-> "Asm", msg |-> "expected data declaration after 'dw'",
               stmt |-> Data(n, <<>>)]
    ELSE IF IsShiftMnemonic(instr)
    THEN LET amt == get_shift_amt(some, arg)
         IN  [res |-> amt.res, msg |-> amt.msg,
              stmt |-> Instr(n, Shift(ShiftMnemonic(instr), amt.amt), some, arg)]
    ELSE IF IsPlainMnemonic(instr)
    THEN [res |-> "Ok", msg |-> "-", stmt |-> Instr(n, PlainMnemonic(instr), some, arg)]
    ELSE [res |-> "Asm", msg |-> "unknown instruction", stmt |-> Data(n, <<>>)]

\* a label bound to the position after the statement that follows it
label_position_next(st) == (Len(st) + 1) % WordMod

\* stmts.len() as u16: the position a label is bound to
label_position(st) == Len(st) % WordMod

\* labels.insert(label, pos)
insert(lb, label, pos) ==
    [x \in (DOMAIN lb) \cup {label} |-> IF x = label THEN pos ELSE lb[x]]

\* the loop body dropping the label of a line that holds no statement
parse_line_unbound(l, n, st, lb) ==
    LET toks == split_whitespace(strip_comment(l))
        first == toks[1]
        idx == find_colon(first)
        label == Trim(SubSeq(first, 1, idx - 1))
        lb1 == IF idx > 0 THEN insert(lb, label, label_position(st)) ELSE lb
        \* the tokens from the instruction on
        rest == IF idx = 0 THEN toks
                ELSE IF idx = Len(first) THEN Tail(toks)
                ELSE <<SubSeq(first, idx + 1, Len(first))>> \o Tail(toks)
        got == get_stmt(rest[1], Len(rest) >= 2, IF Len(rest) >= 2 THEN rest[2] ELSE <<>>, n)
        Stop(res, msg) == [res |-> res, msg |-> msg, stmts |-> st, labels |-> lb]
    IN  IF toks = <<>> THEN [res |-> "Ok", msg |-> "-", stmts |-> st, labels |-> lb]
        ELSE IF idx > 0 /\ label = <<>> THEN Stop("Asm", "found empty label")
        ELSE IF idx > 0 /\ label \in DOMAIN lb THEN Stop("Asm", "found duplicate label")
        ELSE IF rest = <<>> THEN [res |-> "Ok", msg |-> "-", stmts |-> st, labels |-> lb]
        ELSE IF Len(st) = U16Max THEN Stop("ProgramTooLong", "-")
        ELSE IF Len(rest) >= 3 THEN Stop("Asm", "unexpected argument")
        ELSE IF got.res # "Ok" THEN Stop(got.res, got.msg)
        ELSE [res |-> "Ok", msg |-> "-", stmts |-> Append(st, got.stmt), labels |-> lb1]

\* the loop body refusing the statement after the 4096th
parse_line_4096(l, n, st, lb) ==
    LET toks == split_whitespace(strip_comment(l))
        first == toks[1]
        idx == find_colon(first)
        label == Trim(SubSeq(first, 1, idx - 1))
        lb1 == IF idx > 0 THEN insert(lb, label, label_position(st)) ELSE lb
        rest == IF idx = 0 THEN toks
                ELSE IF idx = Len(first) THEN Tail(toks)
                ELSE <<SubSeq(first, idx + 1, Len(first))>> \o Tail(toks)
        got == get_stmt(rest[1], Len(rest) >= 2, IF Len(rest) >= 2 THEN rest[2] ELSE <<>>, n)
        Stop(res, msg) == [res |-> res, msg |-> msg, stmts |-> st, labels |-> lb]
    IN  IF toks = <<>> THEN [res |-> "Ok", msg |-> "-", stmts |-> st, labels |-> lb]
        ELSE IF idx > 0 /\ label = <<>> THEN Stop("Asm", "found empty label")
        ELSE IF idx > 0 /\ label \in DOMAIN lb THEN Stop("Asm", "found duplicate label")
        ELSE IF rest = <<>> THEN [res |-> "Ok", msg |-> "-", stmts |-> st, labels |-> lb1]
        ELSE IF Len(st) = MemSize THEN Stop("ProgramTooLong", "-")
        ELSE IF Len(rest) >= 3 THEN Stop("Asm", "unexpected argument")
        ELSE IF got.res # "Ok" THEN Stop(got.res, got.msg)
        ELSE [res |-> "Ok", msg |-> "-", stmts |-> Append(st, got.stmt), labels |-> lb1]

\* the loop body letting a label that is already bound be bound again
parse_line_rebind(l, n, st, lb) ==
    LET toks == split_whitespace(strip_comment(l))
        first == toks[1]
        idx == find_colon(first)
        label == Trim(SubSeq(first, 1, idx - 1))
        lb1 == IF idx > 0 THEN insert(lb, label, label_position(st)) ELSE lb
        rest == IF idx = 0 THEN toks
                ELSE IF idx = Len(first) THEN Tail(toks)
                ELSE <<SubSeq(first, idx + 1, Len(first))>> \o Tail(toks)
        got == get_stmt(rest[1], Len(rest) >= 2, IF Len(rest) >= 2 THEN rest[2] ELSE <<>>, n)
        Stop(res, msg) == [res |-> res, msg |-> msg, stmts |-> st, labels |-> lb]
    IN  IF toks = <<>> THEN [res |-> "Ok", msg |-> "-", stmts |-> st, labels |-> lb]
        ELSE IF idx > 0 /\ label = <<>> THEN Stop("Asm", "found empty label")
        ELSE IF rest = <<>> THEN [res |-> "Ok", msg |-> "-", stmts |-> st, labels |-> lb1]
        ELSE IF Len(st) = U16Max THEN Stop("ProgramTooLong", "-")
        ELSE IF Len(rest) >= 3 THEN Stop("Asm", "unexpected argument")
        ELSE IF got.res # "Ok" THEN Stop(got.res, got.msg)
        ELSE [res |-> "Ok", msg |-> "-", stmts |-> Append(st, got.stmt), labels |-> lb1]

\* the body of the loop of first_pass for line n holding text l, with the
\* statements st and labels lb collected so far.  [res, msg, stmts, labels]
parse_line(l, n, st, lb) ==
    LET toks == split_whitespace(strip_comment(l))
        first == toks[1]
        idx == find_colon(first)
        label == Trim(SubSeq(first, 1, idx - 1))
        lb1 == IF idx > 0 THEN insert(lb, label, label_position(st)) ELSE lb
        \* the tokens from the instruction on
        rest == IF idx = 0 THEN toks
                ELSE IF idx = Len(first) THEN Tail(toks)
                ELSE <<SubSeq(first, idx + 1, Len(first))>> \o Tail(toks)
        got == get_stmt(rest[1], Len(rest) >= 2, IF Len(rest) >= 2 THEN rest[2] ELSE <<>>, n)
        Stop(res, msg) == [res |-> res, msg |-> msg, stmts |-> st, labels |-> lb]
    IN  IF toks = <<>> THEN [res |-> "Ok", msg |-> "-", stmts |-> st, labels |-> lb]
        ELSE IF idx > 0 /\ label = <<>> THEN Stop("Asm", "found empty label")
        ELSE IF idx > 0 /\ label \in DOMAIN lb THEN Stop("Asm", "found duplicate label")
        ELSE IF rest = <<>> THEN [res |-> "Ok", msg |-> "-", stmts |-> st, labels |-> lb1]
        ELSE IF Len(st) = U16Max THEN Stop("ProgramTooLong", "-")
        ELSE IF Len(rest) >= 3 THEN Stop("Asm", "unexpected argument")
        ELSE IF got.res # "Ok" THEN Stop(got.res, got.msg)
        ELSE [res |-> "Ok", msg |-> "-", stmts |-> Append(st, got.stmt), labels |-> lb1]

\* the loop of first_pass over the lines lo .. hi, entered with the statements
\* st and labels lb: the lines lo .. mid, then, unless one of them failed, the
\* lines mid + 1 .. hi with what the first half collected.
\* [res, msg, line, stmts, labels]
RECURSIVE first_pass_from(_, _, _, _, _)
first_pass_from(lines, lo, hi, st, lb) ==
    IF lo > hi
    THEN [res |-> "Ok", msg |-> "-", line |-> 0, stmts |-> st, labels |-> lb]
    ELSE IF lo = hi
    THEN CHOOSE out \in
            {IF r.res # "Ok"
             THEN [res |-> r.res, msg |-> r.msg, line |-> lo, stmts |-> <<>>, labels |-> <<>>]
             ELSE [res |-> "Ok", msg |-> "-", line |-> 0, stmts |-> r.stmts,
                   labels |-> r.labels] :
             r \in {parse_line(lines[lo], lo, st, lb)}} : TRUE
    ELSE CHOOSE out \in
            {IF r.res # "Ok" THEN r
             ELSE first_pass_from(lines, ((lo + hi) \div 2) + 1, hi, r.stmts, r.labels) :
             r \in {first_pass_from(lines, lo, (lo + hi) \div 2, st, lb)}} : TRUE

\* Assembler::first_pass
first_pass(lines) == first_pass_from(lines, 1, Len(lines), <<>>, <<>>)

\* assemble_data taking an operand of exactly four characters only
assemble_data_hex4(s) ==
    IF Len(s) = 4 /\ from_str_radix16(s).ok
    THEN [res |-> "Ok", msg |-> "-", word |-> from_str_radix16(s).val]
    ELSE [res |-> "Asm", msg |-> "invalid data declaration (must be a hexadecimal word)",
          word |-> 0]

\* Assembler::assemble_data  [res, msg, word]
assemble_data(s) ==
    IF from_str_radix16(s).ok
    THEN [res |-> "Ok", msg |-> "-", word |-> from_str_radix16(s).val]
    ELSE [res |-> "Asm", msg |-> "invalid data declaration (must be a hexadecimal word)",
          word |-> 0]

\* assemble_instr taking position 0 for a label that is not in the table
assemble_instr_zero(stmt, lb) ==
    LET k == stmt.instr.kind
    IN  IF k \in {"Halt", "Io", "Not", "Nop"}
        THEN IF stmt.some THEN [res |-> "Asm", msg |-> "unexpected argument to", word |-> 0]
             ELSE [res |-> "Ok", msg |-> "-", word |-> to_u16(stmt.instr)]
        ELSE IF k = "Shift"
        THEN [res |-> "Ok", msg |-> "-", word |-> to_u16(stmt.instr)]
        ELSE IF ~stmt.some
        THEN [res |-> "Asm", msg |-> "expected argument to", word |-> 0]
        ELSE IF stmt.text \notin DOMAIN lb
        THEN [res |-> "Ok", msg |-> "-", word |-> to_u16(Addr(k, 0))]
        ELSE [res |-> "Ok", msg |-> "-", word |-> to_u16(Addr(k, lb[stmt.text]))]

\* assemble_instr without refuse_arg and require_arg: a spare operand is
\* dropped and a missing one read as address 0
assemble_instr_lenient(stmt, lb) ==
    LET k == stmt.instr.kind
    IN  IF k \in {"Halt", "Io", "Not", "Nop", "Shift"}
        THEN [res |-> "Ok", msg |-> "-", word |-> to_u16(stmt.instr)]
        ELSE IF ~stmt.some
        THEN [res |-> "Ok", msg |-> "-", word |-> to_u16(Addr(k, 0))]
        ELSE IF stmt.text \notin DOMAIN lb
        THEN [res |-> "Asm", msg |-> "label is undefined", word |-> 0]
        ELSE [res |-> "Ok", msg |-> "-", word |-> to_u16(Addr(k, lb[stmt.text]))]

\* Assembler::assemble_instr with refuse_arg, require_arg and resolve_label
\* [res, msg, word]
assemble_instr(stmt, lb) ==
    LET k == stmt.instr.kind
    IN  IF k \in {"Halt", "Io", "Not", "Nop"}
        THEN IF stmt.some THEN [res |-> "Asm", msg |-> "unexpected argument to", word |-> 0]
             ELSE [res |-> "Ok", msg |-> "-", word |-> to_u16(stmt.instr)]
        ELSE IF k = "Shift"
        THEN [res |-> "Ok", msg |-> "-", word |-> to_u16(stmt.instr)]
        ELSE IF ~stmt.some
        THEN [res |-> "Asm", msg |-> "expected argument to", word |-> 0]
        ELSE IF stmt.text \notin DOMAIN lb
        THEN [res |-> "Asm", msg |-> "label is undefined", word |-> 0]
        ELSE [res |-> "Ok", msg |-> "-", word |-> to_u16(Addr(k, lb[stmt.text]))]

\* second_pass resolving an operand only against the labels bound before the
\* statement that uses it
second_pass_backward(st, lb) ==
    LET code == [j \in 1 .. Len(st) |->
                    IF st[j].kind = "Data" THEN assemble_data(st[j].text)
                    ELSE assemble_instr(st[j],
                            [x \in {y \in DOMAIN lb : lb[y] < j} |-> lb[x]])]
        bad == {j \in 1 .. Len(st) : code[j].res # "Ok"}
    IN  IF bad # {}
        THEN [res |-> code[Least(bad)].res, msg |-> code[Least(bad)].msg,
              line |-> st[Least(bad)].line, data |-> <<>>]
        ELSE [res |-> "Ok", msg |-> "-", line |-> 0,
              data |-> [j \in 1 .. Len(st) |-> code[j].word]]

\* Assembler::second_pass: the words of the statements in order, or the
\* error of the first statement that has one.  [res, msg, line, data]
second_pass(st, lb) ==
    LET code == [j \in 1 .. Len(st) |->
                    IF st[j].kind = "Data" THEN assemble_data(st[j].text)
                    ELSE assemble_instr(st[j], lb)]
        bad == {j \in 1 .. Len(st) : code[j].res # "Ok"}
    IN  IF bad # {}
        THEN [res |-> code[Least(bad)].res, msg |-> code[Least(bad)].msg,
              line |-> st[Least(bad)].line, data |-> <<>>]
        ELSE [res |-> "Ok", msg |-> "-", line |-> 0,
              data |-> [j \in 1 .. Len(st) |-> code[j].word]]

\* assemble giving up the label table it built
assemble_unlabelled(lines) ==
    CHOOSE out \in
        {IF p.res # "Ok"
         THEN [res |-> p.res, msg |-> p.msg, line |-> p.line, data |-> <<>>, labels |-> <<>>]
         ELSE CHOOSE o \in
                 {[res |-> r.res, msg |-> r.msg, line |-> r.line, data |-> r.data,
                   labels |-> <<>>] :
                  r \in {second_pass(p.stmts, p.labels)}} : TRUE :
         p \in {first_pass(lines)}} : TRUE

\* Assembler::assemble: first_pass, then second_pass on what it collected.
\* [res, msg, line, data, labels]
assemble(lines) ==
    CHOOSE out \in
        {IF p.res # "Ok"
         THEN [res |-> p.res, msg |-> p.msg, line |-> p.line, data |-> <<>>, labels |-> <<>>]
         ELSE CHOOSE o \in
                 {[res |-> r.res, msg |-> r.msg, line |-> r.line, data |-> r.data,
                   labels |-> IF r.res = "Ok" THEN p.labels ELSE <<>>] :
                  r \in {second_pass(p.stmts, p.labels)}} : TRUE :
         p \in {first_pass(lines)}} : TRUE

MaxLines == 3

\* lines that define and use labels
AsmLines ==
    { <<"h", "a", "l", "t">>,
      <<"j", "m", "p", " ", "i", "n", "i", "t">>,
      <<"i", "n", "i", "t", ":">>,
      <<"a", ":">>,
      <<"a", ":", " ", "d", "w", " ", "1", "2", "3", "4">>,
      <<"l", "o", "a", "d", " ", "a", " ", "/", "/", " ", "c">>,
      <<>>,
      <<"/", "/", " ", "c">>,
      <<"i", "n", "i", "t", ":", " ", "s", "t", "o", "r", "e", " ", "a">>,
      <<"s", "h", "i", "f", "t", "R", " ", "4">>,
      <<"b", ":", "b", "r", "l", " ", "a">> }

\* lines with and without defects, of the first pass and of the second
FaultLines ==
    { <<"a", ":">>,
      <<"a", ":", " ", "h", "a", "l", "t">>,
      <<"b", "o", "g", "u", "s">>,
      <<"j", "m", "p", " ", "z">>,
      <<":">>,
      <<"h", "a", "l", "t", " ", "x", " ", "y">>,
      <<"s", "h", "i", "f", "t", "L", " ", "1", "6">>,
      <<"d", "w">>,
      <<"h", "a", "l", "t", " ", "x">>,
      <<"l", "o", "a", "d">> }

\* dw and shift statements with operands of every shape
WordLines ==
    { <<"d", "w", " ", "5">>,
      <<"d", "w", " ", "0", "0", "0", "0", "1">>,
      <<"d", "w", " ", "+", "5">>,
      <<"d", "w", " ", "z", "z">>,
      <<"d", "w", " ", "1", "2", "3", "4", "5">>,
      <<"d", "w", " ", "1", "2", "3", "4">>,
      <<"d", "w", " ", "f", "f", "f", "f">>,
      <<"s", "h", "i", "f", "t", "L">>,
      <<"s", "h", "i", "f", "t", "L", " ", "x">>,
      <<"s", "h", "i", "f", "t", "L", " ", "1", "6">>,
      <<"s", "h", "i", "f", "t", "L", " ", "+", "4">>,
      <<"r", "o", "t", "R", " ", "1", "5">>,
      <<"r", "o", "t", "L", " ", "0", "4">>,
      <<"s", "h", "i", "f", "t", "R", " ", "0">>,
      <<"j", "m", "p", " ", "z">> }

\* the program of the Assembler documentation
DocSource ==
    << <<"/", "/", " ", "J", "u", "m", "p", " ", "t", "o", " ", "b", "e", "g",
          "i", "n", "n", "i", "n", "g">>,
       <<" ", " ", " ", " ", " ", " ", " ", " ", "j", "m", "p", " ", " ", " ",
          " ", " ", "i", "n", "i", "t">>,
       <<"/", "/", " ", "S", "o", "u", "r", "c", "e">>,
       <<"s", "r", "c", ":", " ", " ", " ", " ", "d", "w", " ", " ", " ", " ",
          " ", " ", "1", "2", "3", "4">>,
       <<"/", "/", " ", "D", "e", "s", "t", "i", "n", "a", "t", "i", "o", "n">>,
       <<"d", "e", "s", "t", ":", " ", " ", " ", "d", "w", " ", " ", " ", " ",
          " ", " ", "0", "0", "0", "0">>,
       <<>>,
       <<"i", "n", "i", "t", ":">>,
       <<" ", " ", " ", " ", " ", " ", " ", " ", "/", "/", " ", "L", "o", "a",
          "d", " ", "s", "o", "u", "r", "c", "e", " ", "a", "n", "d", " ", "t",
          "h", "e", "n", " ", "s", "t", "o", "r", "e", " ", "i", "n", " ", "d",
          "e", "s", "t", "i", "n", "a", "t", "i", "o", "n">>,
       <<" ", " ", " ", " ", " ", " ", " ", " ", "l", "o", "a", "d", " ", " ",
          " ", " ", "s", "r", "c">>,
       <<" ", " ", " ", " ", " ", " ", " ", " ", "s", "t", "o", "r", "e", " ",
          " ", " ", "d", "e", "s", "t">>,
       <<" ", " ", " ", " ", " ", " ", " ", " ", "/", "/", " ", "E", "n", "d",
          " ", "p", "r", "o", "g", "r", "a", "m">>,
       <<" ", " ", " ", " ", " ", " ", " ", " ", "h", "a", "l", "t">> >>

Sources ==
    SeqsUpTo(AsmLines, MaxLines) \cup SeqsUpTo(FaultLines, MaxLines)
        \cup SeqsUpTo(WordLines, MaxLines - 1) \cup {DocSource}

\* assemble() is about to be called with the text aSrc
AsmStart(texts) ==
    /\ aSrc \in texts
    /\ aStage = "idle"
    /\ stmts = <<>>
    /\ labels = <<>>
    /\ aRet = NoResult
    /\ aAgain = NoProgram

AsmInit ==
    /\ CodecIdle
    /\ SimIdle
    /\ LoadIdle
    /\ AsmStart(Sources)

\* Assembler::assemble, up to the return of first_pass
FirstPass ==
    /\ aStage = "idle"
    /\ \E r \in {first_pass(aSrc)} :
          /\ stmts' = r.stmts
          /\ labels' = r.labels
          /\ aStage' = IF r.res = "Ok" THEN "parsed" ELSE "done"
          /\ aRet' = [res |-> r.res, msg |-> r.msg, line |-> r.line, data |-> <<>>]
    /\ UNCHANGED <<aSrc, aAgain, codecVars, simVars, envVars, loadVars>>

\* Assembler::assemble, from the call of second_pass to its return
SecondPass ==
    /\ aStage = "parsed"
    /\ \E r \in {second_pass(stmts, labels)} :
          /\ aRet' = r
          /\ labels' = IF r.res = "Ok" THEN labels ELSE <<>>
    /\ stmts' = <<>>
    /\ aStage' = "done"
    /\ UNCHANGED <<aSrc, aAgain, codecVars, simVars, envVars, loadVars>>

\* a second call of Assembler::assemble with the same text
AssembleAgain ==
    /\ aStage = "done"
    /\ aAgain = NoProgram
    /\ aAgain' = assemble(aSrc)
    /\ UNCHANGED <<aSrc, aStage, stmts, labels, aRet, codecVars, simVars, envVars, loadVars>>

AsmNext == FirstPass \/ SecondPass \/ AssembleAgain

AsmSpec == AsmInit /\ [][AsmNext]_vars

\* n times the line l
RECURSIVE Repeat(_, _)
Repeat(l, n) ==
    IF n = 0 THEN <<>>
    ELSE IF n % 2 = 1 THEN Repeat(l, n - 1) \o <<l>>
    ELSE CHOOSE out \in {h \o h : h \in {Repeat(l, n \div 2)}} : TRUE

\* sources of more statements than a memory holds, up to one more than the
\* assembler collects
LongSources ==
    { Repeat(<<"n", "o", "p">>, MemSize) \o << <<"x", ":", " ", "j", "m", "p", " ", "x">> >>,
      Repeat(<<"n", "o", "p">>, U16Max),
      Repeat(<<"n", "o", "p">>, U16Max) \o << <<"x", ":">>, <<"/", "/", " ", "c">> >>,
      Repeat(<<"n", "o", "p">>, U16Max) \o << <<"x", ":", " ", "h", "a", "l", "t">> >> }

LongAsmInit ==
    /\ CodecIdle
    /\ SimIdle
    /\ LoadIdle
    /\ AsmStart(LongSources \cup SeqsUpTo(WordLines, MaxLines - 1))

LongAsmSpec == LongAsmInit /\ [][AsmNext]_vars

(***************************************************************************)
(* The codec on its own: a word is decoded and the result encoded again,   *)
(* or an instruction is encoded and the result decoded again.              *)
(***************************************************************************)
\* the u16 values tried as out-of-range payloads
BigArgs == {16, 17, 31, 4096, 4097, 8191, 32768, 65535}

InsInputs ==
    {Halt, Not, Nop}
    \cup {Io(o) : o \in IoOp}
    \cup {Shift(o, n) : o \in ShiftOp, n \in (0 .. 15) \cup BigArgs}
    \cup {Addr(k, a) : k \in AddrKinds, a \in Addrs \cup BigArgs}

CodecInit ==
    /\ CodecIdle
    /\ SimIdle
    /\ LoadIdle
    /\ AsmIdle

\* from_u16(w) for a word w
DecodeWord ==
    /\ cTrace = <<>>
    /\ \E w \in Word :
          /\ cWord0' = w
          /\ cWord' = w
          /\ cIns' = from_u16(w)
    /\ cTrace' = <<"from_u16">>
    /\ UNCHANGED <<cIns0, simVars, envVars, loadVars, asmVars>>

\* to_u16 of the instruction just decoded
EncodeDecoded ==
    /\ cTrace = <<"from_u16">>
    /\ cWord' = to_u16(cIns)
    /\ cTrace' = <<"from_u16", "to_u16">>
    /\ UNCHANGED <<cIns, cWord0, cIns0, simVars, envVars, loadVars, asmVars>>

\* to_u16(x) for an instruction x
EncodeIns ==
    /\ cTrace = <<>>
    /\ \E x \in InsInputs :
          /\ cIns0' = x
          /\ cIns' = x
          /\ cWord' = to_u16(x)
    /\ cTrace' = <<"to_u16">>
    /\ UNCHANGED <<cWord0, simVars, envVars, loadVars, asmVars>>

\* from_u16 of the word just encoded
DecodeEncoded ==
    /\ cTrace = <<"to_u16">>
    /\ cIns' = from_u16(cWord)
    /\ cTrace' = <<"to_u16", "from_u16">>
    /\ UNCHANGED <<cWord, cWord0, cIns0, simVars, envVars, loadVars, asmVars>>

CodecNext == DecodeWord \/ EncodeDecoded \/ EncodeIns \/ DecodeEncoded

CodecSpec == CodecInit /\ [][CodecNext]_vars

(***************************************************************************)
(* Properties of the codec (CodecSpec)                                     *)
(***************************************************************************)
DecodedThenEncoded == cTrace = <<"from_u16", "to_u16">>
EncodedThenDecoded == cTrace = <<"to_u16", "from_u16">>

\* the bits of w that no field of its opcode group uses: the low 12 bits of
\* halt, not and nop, the low 10 bits of the I/O group, bits 4..9 of the
\* shift group, none in the address-taking groups
UnusedBits(w) ==
    LET top == w \div 4096
    IN  CASE top \in {0, 10, 11} -> w % 4096
          [] top = 1 -> w % 1024
          [] top = 2 -> ((w % 1024) \div 16) * 16
          [] OTHER -> 0

\* C1 (as stated): for every 16-bit word w, to_u16(from_u16(w)) = w,
\* including words whose low bits are non-zero in the halt, I/O, shift, not
\* and nop groups.
C1_RoundTripEveryWord == DecodedThenEncoded => cWord = cWord0

\* C1 (amended): for every 16-bit word w, to_u16(from_u16(w)) is w with the
\* bits its opcode group does not use cleared; so the round trip gives back
\* w exactly when those bits are 0, which is always so in the eleven
\* address-taking groups.
C1_RoundTripClearsUnusedBits ==
    DecodedThenEncoded =>
        /\ cWord = cWord0 - UnusedBits(cWord0)
        /\ (cWord = cWord0) <=> (UnusedBits(cWord0) = 0)

\* a word of the I/O group with low bits set (0x1a34) came back as 0x1800
C1_Witness == DecodedThenEncoded /\ cWord0 = 6708 /\ cWord = 6144

InRange(x) ==
    /\ x.kind \in AddrKinds => x.arg \in 0 .. 4095
    /\ x.kind = "Shift" => x.arg \in 0 .. 15

\* C2: for every instruction x whose address field is in 0..4095 and whose
\* shift amount is in 0..15, from_u16(to_u16(x)) = x.
C2_RoundTripInRangeInstruction ==
    (EncodedThenDecoded /\ InRange(cIns0)) => cIns = cIns0

\* rotR 15 and brl 0xfff, the largest in-range payloads, went through both
C2_Witness ==
    /\ EncodedThenDecoded
    /\ cIns0 \in {Shift("RotateRight", 15), Addr("Brl", 4095)}
    /\ cIns = cIns0

(***************************************************************************)
(* Properties of the simulator (Spec).  `last` describes the latest step() *)
(* call and `prev` the one before it, so a statement about last holds of   *)
(* every step() call, and one about prev and last of every two in a row.   *)
(***************************************************************************)
Succeeded(c) == c.res \in {"Ok(true)", "Ok(false)"}
Failed(c) == c.res \notin {"-", "Ok(true)", "Ok(false)"}
Called(c) == c.res # "-"
Decoded(c) == from_u16(c.word0)

\* C3: a step() call on a machine that is already halted fails with Halted
\* whatever the program counter is, pc >= 4096 included; OutOfBounds is
\* returned only when the machine is not halted and pc >= 4096.
C3_HaltedWinsOverOutOfBounds ==
    Called(last) =>
        /\ last.halted0 => last.res = "Halted"
        /\ last.res = "OutOfBounds" => (~last.halted0 /\ last.pc0 >= MemSize)

\* C4: after every successful step() the instruction register holds the raw
\* word that was in memory at the program counter the call started with, and
\* regs() reports it.
C4_IrHoldsFetchedWord ==
    Succeeded(last) => (ir = last.word0 /\ regs(Sim)[2] = last.word0)

C6_FailedExecuteKeepsState ==
    (last.fetched /\ last.res \in {"UserInput", "Io"}) =>
        /\ acc = last.acc0
        /\ last.changed = {}
        /\ halted = last.halted0
        /\ pc = last.pc0 + 1

\* a readH or readC failed with a non-zero accumulator at stake
C6_Witness ==
    /\ last.res \in {"UserInput", "Io"}
    /\ Decoded(last) \in {Io("ReadHex"), Io("ReadChar")}
    /\ last.acc0 # 0
    /\ acc = last.acc0

\* C7: halted becomes true only through a step() that executes a Halt
\* instruction (a word whose top four bits are 0); once true it stays true;
\* a step() that returns an error never sets it.
C7_HaltedOnlyByHaltAndForGood ==
    /\ (halted /\ ~last.halted0) =>
          (last.res = "Ok(true)" /\ last.fetched /\ last.word0 \div 4096 = 0)
    /\ last.halted0 => halted
    /\ Failed(last) => halted = last.halted0

\* the word 0x0abc, whose top four bits are 0, halted the machine
C7_Witness == halted /\ ~last.halted0 /\ last.word0 = 2748

\* C8: run() returns Ok only in a state where halted is true, at the first
\* step that reports halted; otherwise it returns the first error a step
\* produces; in both cases it performs no further step.
C8_RunStopsAtFirstHaltOrError ==
    /\ mode = "run" => (ret.call = "run" /\ ret.res = "-")
    /\ (mode = "run" /\ ret.n >= 1) => (last.inRun /\ last.res = "Ok(false)")
    /\ (mode = "idle" /\ ret.call = "run") =>
          /\ ret.n >= 1
          /\ last.inRun
          /\ ret.res = "Ok" => (halted /\ last.res = "Ok(true)")
          /\ ret.res # "Ok" => (Failed(last) /\ ret.res = last.res)

\* a run() of at least three steps that ended with Ok
C8_Witness ==
    mode = "idle" /\ ret.call = "run" /\ ret.res = "Ok" /\ ret.n >= 3

NonJump(c) == Decoded(c).kind \notin {"Halt", "Jmp", "Jmpe", "Jmpl", "Brl"}

\* C9: when a non-jump, non-halt instruction at address 4095 executes, the
\* program counter becomes 4096 and does not wrap to 0; the next step()
\* fails with OutOfBounds and fetches nothing.
C9_NoWrapPastLastCell ==
    /\ (last.pc0 = MemSize - 1 /\ last.res = "Ok(false)" /\ NonJump(last)) =>
          pc = MemSize
    /\ (prev.pc0 = MemSize - 1 /\ prev.res = "Ok(false)" /\ NonJump(prev)) =>
          /\ last.pc0 = MemSize
          /\ last.res = "OutOfBounds"
          /\ ~last.fetched
          /\ pc = MemSize

\* a nop at 4095 executed and the call after it reported OutOfBounds
C9_Witness ==
    /\ prev.pc0 = MemSize - 1
    /\ prev.word0 = 45056
    /\ prev.res = "Ok(false)"
    /\ last.res = "OutOfBounds"

\* C10: a step() that executes an instruction other than store leaves every
\* memory cell unchanged; store addr changes only cell addr, to the bit
\* pattern of the accumulator; a failing step() changes no cell.  So load a
\* followed by store b leaves memory[b] = memory[a].
C10_OnlyStoreWritesMemory ==
    /\ (Called(last) /\ ~(Succeeded(last) /\ Decoded(last).kind = "Store")) =>
          last.changed = {}
    /\ (Succeeded(last) /\ Decoded(last).kind = "Store") =>
          /\ last.changed \subseteq {Decoded(last).arg}
          /\ Mem(memory, Decoded(last).arg) = AsU16(last.acc0)
          /\ acc = last.acc0
    /\ (Succeeded(prev) /\ Decoded(prev).kind = "Load"
        /\ Succeeded(last) /\ Decoded(last).kind = "Store") =>
          Mem(memory, Decoded(last).arg) = Mem(memory, Decoded(prev).arg)

\* load 1 then store 2 ran and the store changed cell 2
C10_Witness ==
    /\ Succeeded(prev) /\ Decoded(prev) = Addr("Load", 1)
    /\ Succeeded(last) /\ Decoded(last) = Addr("Store", 2)
    /\ last.changed = {2}
    /\ Mem(memory, 2) = Mem(memory, 1)

(***************************************************************************)
(* Properties of the instructions (ExecSpec)                               *)
(***************************************************************************)
\* the call c fetched an instruction of kind k on a machine not halted
Executes(c, k) == c.fetched /\ ~c.halted0 /\ Decoded(c).kind = k

\* C11: shiftR n is a logical shift: for every accumulator bit pattern a and
\* every n in 0..15 the new accumulator is floor(a / 2^n) of the unsigned a,
\* so its top n bits are 0 even when a has bit 15 set.
C11_ShiftRightIsLogical ==
    (Executes(last, "Shift") /\ Decoded(last).op = "ShiftRight") =>
        LET n == Decoded(last).arg
            a == AsU16(last.acc0)
            r == AsU16(acc)
        IN  /\ Succeeded(last)
            /\ n \in 0 .. 15
            /\ r * Pow2(n) <= a
            /\ a < (r + 1) * Pow2(n)
            /\ r < Pow2(16 - n)

\* 0x8000 shifted right by 1 gave 0x4000
C11_Witness ==
    /\ Succeeded(last)
    /\ Decoded(last) = Shift("ShiftRight", 1)
    /\ last.acc0 = 0 - 32768
    /\ acc = 16384

\* C12: add addr and sub addr set the accumulator to (acc + memory[addr])
\* mod 2^16 and (acc - memory[addr]) mod 2^16 for all 16-bit operands, and
\* the step always succeeds: overflow is never a fault.
C12_AddSubWrap ==
    /\ Executes(last, "Add") =>
          /\ last.res = "Ok(false)"
          /\ AsU16(acc) = (AsU16(last.acc0) + Mem(memory, Decoded(last).arg)) % WordMod
    /\ Executes(last, "Sub") =>
          /\ last.res = "Ok(false)"
          /\ AsU16(acc) = (AsU16(last.acc0) - Mem(memory, Decoded(last).arg)) % WordMod

\* 0x7fff plus 1 gave 0x8000
C12_Witness ==
    /\ Executes(last, "Add")
    /\ last.acc0 = 32767
    /\ Mem(memory, Decoded(last).arg) = 1
    /\ acc = 0 - 32768

\* C13: jmpe addr sets pc = addr exactly when the accumulator is 0, and jmpl
\* addr sets pc = addr exactly when bit 15 of the accumulator is set; in
\* every other case pc is the address following the jump, and neither
\* instruction changes the accumulator.
C13_ConditionalJumps ==
    /\ Executes(last, "Jmpe") =>
          /\ last.res = "Ok(false)"
          /\ acc = last.acc0
          /\ pc = IF last.acc0 = 0 THEN Decoded(last).arg ELSE last.pc0 + 1
    /\ Executes(last, "Jmpl") =>
          /\ last.res = "Ok(false)"
          /\ acc = last.acc0
          /\ pc = IF AsU16(last.acc0) >= SignBit THEN Decoded(last).arg
                  ELSE last.pc0 + 1

\* a jmpl met the accumulator 0 and fell through to the next address
C13_Witness ==
    /\ Executes(last, "Jmpl")
    /\ last.acc0 = 0
    /\ pc = last.pc0 + 1
    /\ Decoded(last).arg # last.pc0 + 1

\* C14: brl addr executed at address p sets the accumulator to p + 1 and
\* then pc to addr; a store executed at the target therefore writes p + 1.
C14_BrlSavesReturnAddress ==
    /\ Executes(last, "Brl") =>
          /\ last.res = "Ok(false)"
          /\ AsU16(acc) = last.pc0 + 1
          /\ pc = Decoded(last).arg
    /\ (Executes(prev, "Brl") /\ Executes(last, "Store")) =>
          /\ last.pc0 = Decoded(prev).arg
          /\ Mem(memory, Decoded(last).arg) = prev.pc0 + 1

\* a brl at 2 went to the store at 4, which wrote 3 into cell 9
C14_Witness ==
    /\ Executes(prev, "Brl")
    /\ prev.pc0 = 2
    /\ Executes(last, "Store")
    /\ last.pc0 = 4
    /\ Mem(memory, 9) = 3

(***************************************************************************)
(* Properties of readH, readC and printH                                   *)
(***************************************************************************)
Reads(c) == Executes(c, "Io") /\ Decoded(c).op \in {"ReadHex", "ReadChar"}

\* C18: when the input stream is at end-of-stream when readH or readC
\* executes, the step fails with an Io error, not a UserInput error.
C18_EndOfStreamIsIoError ==
    (Reads(last) /\ input = "eof") => last.res = "Io"

\* the text t is one to four hexadecimal digits in the {:04x} form
IsHex4(t) == Len(t) = 4 /\ \A i \in 1 .. 4 : \E d \in 1 .. 16 : HexDigits[d] = t[i]

\* C19: for every 16-bit value v, readH given the line holding v as 4 hex
\* digits sets the accumulator to v, bit 15 included, and an immediately
\* following printH writes exactly that 4-digit line; a line of 0 or more
\* than 4 characters, or with a non-hex character, makes readH fail with
\* UserInput.  (The line is taken without its surrounding whitespace.)
C19_ReadHexThenPrintHexEchoes ==
    \A r \in offers :
        LET t == Trim(r.text)
        IN  /\ (Executes(last, "Io") /\ Decoded(last).op = "ReadHex"
                /\ last.res # "Io") =>
                  /\ IsHex4(t) =>
                        (Succeeded(last) /\ AsU16(acc) = DigitsValue(t, 0))
                  /\ (Len(t) = 0 \/ Len(t) > 4
                      \/ \E i \in 1 .. Len(t) : ~IsHexDigit(t[i])) =>
                        last.res = "UserInput"
            /\ (Executes(prev, "Io") /\ Decoded(prev).op = "ReadHex"
                /\ Succeeded(prev) /\ IsHex4(t)
                /\ Executes(last, "Io") /\ Decoded(last).op = "WriteHex"
                /\ Succeeded(last)) =>
                  output[Len(output)] = Text(t \o <<"\n">>)

(***************************************************************************)
(* Properties of the loaders and writers (LoadSpec)                        *)
(***************************************************************************)
\* the input is in the format its constructor reads: any words, an even
\* number of bytes, lines of exactly four hexadecimal digits
WellFormed(arg) ==
    CASE arg.kind = "words" -> TRUE
      [] arg.kind = "bytes" -> Len(arg.data) % 2 = 0
      [] arg.kind = "lines" ->
            \A j \in 1 .. Len(arg.data) :
                /\ Len(arg.data[j]) = 4
                /\ \A x \in 1 .. 4 : IsHexDigit(arg.data[j][x])
      [] OTHER -> FALSE

\* the words a well-formed input holds: bytes pair up low byte first
InputWords(arg) ==
    CASE arg.kind = "words" -> arg.data
      [] arg.kind = "bytes" ->
            [j \in 1 .. (Len(arg.data) \div 2) |->
                arg.data[2 * j - 1] + 256 * arg.data[2 * j]]
      [] arg.kind = "lines" ->
            [j \in 1 .. Len(arg.data) |-> DigitsValue(arg.data[j], 0)]

\* the cells 0..n-1 hold the words ws[1..n], in order
HoldsWords(ws, n) ==
    \A a \in 0 .. (n - 1) : Mem(memory, a) = ws[a + 1]

\* C15: each constructor (from_instructions, from_binary, from_hex) succeeds
\* for an input of n <= 4096 words and fails with ProgramTooLong for more; on
\* success memory[0..n) equals the input words in order, memory[n..4096) is
\* all zero, acc = ir = pc = 0 and halted is false.
C15_ConstructorsLoadOrRefuse ==
    (Len(lTrace) = 1 /\ WellFormed(lArg)) =>
        \E ws \in {InputWords(lArg)} :
            IF Len(ws) > MemSize THEN ret.res = "ProgramTooLong"
            ELSE /\ ret.res = "Ok"
                 /\ HoldsWords(ws, Len(ws))
                 /\ \A a \in DOMAIN memory : a < Len(ws)
                 /\ acc = 0 /\ ir = 0 /\ pc = 0 /\ ~halted

\* from_hex loaded 4096 words, the last of them into cell 4095
C15_Witness ==
    /\ lTrace = <<"from_hex">>
    /\ WellFormed(lArg)
    /\ Len(lArg.data) = MemSize
    /\ ret.res = "Ok"
    /\ Mem(memory, MemSize - 1) = 45056

\* C16: from_binary rejects an input with an odd number of bytes: the byte
\* length must be even (and at most 8192) for loading to succeed.
C16_OddByteCountIsRejected ==
    (lTrace = <<"from_binary">> /\ ret.res = "Ok") =>
        (Len(lArg.data) % 2 = 0 /\ Len(lArg.data) <= 2 * MemSize)

\* C17: for every byte sequence b of even length at most 8192,
\* to_binary(from_binary(b)) = b, each word being stored low byte first;
\* and from_binary(to_binary(from_instructions(ws))) has the same first
\* len(ws) memory words as ws.
C17_BinaryRoundTrip ==
    /\ (lTrace = <<"from_binary">> /\ WellFormed(lArg)
        /\ Len(lArg.data) <= 2 * MemSize) =>
          /\ ret.res = "Ok"
          /\ \A a \in 0 .. ((Len(lArg.data) \div 2) - 1) :
                /\ Mem(memory, a) % 256 = lArg.data[2 * a + 1]
                /\ Mem(memory, a) \div 256 = lArg.data[2 * a + 2]
    /\ (lTrace = <<"from_binary", "to_binary">> /\ WellFormed(lArg)) =>
          lFile.data = lArg.data
    /\ lTrace = <<"from_instructions", "to_binary", "from_binary">> =>
          /\ ret.res = "Ok"
          /\ HoldsWords(lArg.data, Len(lArg.data))

\* the bytes 0x10, 0xab came back from to_binary(from_binary(..)) in order
C17_Witness ==
    /\ lTrace = <<"from_binary", "to_binary">>
    /\ lArg.data = <<16, 171>>
    /\ lFile.data = <<16, 171>>
    /\ Mem(memory, 0) = 43792

(***************************************************************************)
(* Properties of the assembler (AsmSpec), stated on the source text.       *)
(***************************************************************************)
Assembled == aStage = "done" /\ aRet.res = "Ok"

\* the tokens of source line i, its comment removed
Tokens(i) == split_whitespace(strip_comment(aSrc[i]))

\* line i defines a label: its first token holds a colon
DefinesLabel(i) == Tokens(i) # <<>> /\ find_colon(Tokens(i)[1]) > 0
LabelOf(i) == SubSeq(Tokens(i)[1], 1, find_colon(Tokens(i)[1]) - 1)

\* the tokens of the statement on line i: what follows the label, if any
StatementOf(i) ==
    LET toks == Tokens(i)
        idx == find_colon(toks[1])
    IN  IF toks = <<>> THEN <<>>
        ELSE IF idx = 0 THEN toks
        ELSE IF idx = Len(toks[1]) THEN Tail(toks)
        ELSE <<SubSeq(toks[1], idx + 1, Len(toks[1]))>> \o Tail(toks)

\* line i holds a statement; blank, comment and label-only lines do not
HoldsStatement(i) == StatementOf(i) # <<>>
StatementsBefore(i) == Cardinality({j \in 1 .. (i - 1) : HoldsStatement(j)})

\* the word w is the statement st assembled against the label table lb
IsWordOf(w, st, lb) ==
    IF st[1] = <<"d", "w">> THEN w = from_str_radix16(st[2]).val
    ELSE IF IsShiftMnemonic(st[1])
    THEN from_u16(w) = Shift(ShiftMnemonic(st[1]), parse_u16(st[2]).val)
    ELSE /\ from_u16(w).kind = PlainMnemonic(st[1]).kind
         /\ from_u16(w).op = PlainMnemonic(st[1]).op
         /\ from_u16(w).kind \in AddrKinds => from_u16(w).arg = lb[st[2]]

\* C20: assemble emits exactly one word per statement, in statement order,
\* and binds every label to the number of statements collected before it;
\* blank lines, comment lines and label-only lines emit no word, so several
\* labels placed before one statement all map to that statement's index.
C20_OneWordPerStatement ==
    Assembled =>
        /\ Len(aRet.data) = Cardinality({i \in 1 .. Len(aSrc) : HoldsStatement(i)})
        /\ DOMAIN labels = {LabelOf(i) : i \in {j \in 1 .. Len(aSrc) : DefinesLabel(j)}}
        /\ \A i \in 1 .. Len(aSrc) :
              /\ DefinesLabel(i) => labels[LabelOf(i)] = StatementsBefore(i)
              /\ HoldsStatement(i) =>
                    IsWordOf(aRet.data[StatementsBefore(i) + 1], StatementOf(i), labels)

\* the program of the documentation assembled to its six words, the label
\* init on a line of its own bound to the load that follows it
C20_Witness ==
    /\ Assembled
    /\ aSrc = DocSource
    /\ aRet.data = <<49155, 4660, 0, 12289, 16386, 0>>
    /\ labels[<<"i", "n", "i", "t">>] = 3

(***************************************************************************)
(* Labels and errors of the assembler (AsmSpec)                            *)
(***************************************************************************)
Lines == 1 .. Len(aSrc)
Returned1 == aStage = "done"
FailedAt(n) == Returned1 /\ aRet.res = "Asm" /\ aRet.line = n

\* line i holds an address-taking instruction with exactly one operand
TakesAddress(i) ==
    /\ Len(StatementOf(i)) = 2
    /\ IsPlainMnemonic(StatementOf(i)[1])
    /\ PlainMnemonic(StatementOf(i)[1]).kind \in AddrKinds
OperandOf(i) == StatementOf(i)[2]
WordOfLine(i) == aRet.data[StatementsBefore(i) + 1]
DefinedLabels == {LabelOf(j) : j \in {k \in Lines : DefinesLabel(k)}}

\* C21: an address operand naming a label resolves to the position of the
\* label whether the label is defined on an earlier or on a later line than
\* the line that uses it, and assemble never reports a label as undefined
\* that some line of the source, before or after the use, defines.
C21_ForwardReferencesResolve ==
    /\ Assembled =>
          \A i \in Lines : \A j \in Lines :
              (TakesAddress(i) /\ DefinesLabel(j) /\ OperandOf(i) = LabelOf(j)) =>
                  from_u16(WordOfLine(i)).arg = StatementsBefore(j)
    /\ (Returned1 /\ aRet.msg = "label is undefined") =>
          /\ TakesAddress(aRet.line)
          /\ OperandOf(aRet.line) \notin DefinedLabels

\* jmp init before and after the line "init:" assembled to the same word,
\* a jump to position 1
C21_Witness ==
    /\ Assembled
    /\ aSrc = << <<"j", "m", "p", " ", "i", "n", "i", "t">>,
                 <<"i", "n", "i", "t", ":">>,
                 <<"j", "m", "p", " ", "i", "n", "i", "t">> >>
    /\ aRet.data = <<49153, 49153>>

\* line j defines a label that an earlier line defines too
DefinesAgain(j) ==
    /\ DefinesLabel(j)
    /\ \E i \in 1 .. (j - 1) : DefinesLabel(i) /\ LabelOf(i) = LabelOf(j)

\* line i, taken on its own, is refused by the first pass
FaultyAlone(i) == parse_line(aSrc[i], i, <<>>, <<>>).res # "Ok"

\* C22: a source that defines a label twice fails to assemble with an Asm
\* error; unless an earlier line is itself refused by the first pass, the
\* error is "found duplicate label" at the line of the second definition.
\* So no two lines of a successfully assembled source define the same label.
C22_DuplicateLabelIsRefused ==
    /\ \A j \in Lines :
          (DefinesAgain(j) /\ aStage # "idle") =>
              /\ aStage = "done"
              /\ aRet.res = "Asm"
              /\ aRet.line <= j
              /\ aRet.line = j => aRet.msg = "found duplicate label"
              /\ (\A i \in 1 .. (j - 1) : ~FaultyAlone(i) /\ ~DefinesAgain(i)) =>
                    aRet.line = j
    /\ Assembled =>
          /\ \A j \in Lines : ~DefinesAgain(j)
          /\ Cardinality(DOMAIN labels) = Cardinality({j \in Lines : DefinesLabel(j)})

\* "a:" on lines 1 and 3, with a reference to an undefined label between
\* them: refused at line 3
C22_Witness ==
    /\ aSrc = << <<"a", ":">>, <<"j", "m", "p", " ", "z">>, <<"a", ":">> >>
    /\ FailedAt(3)
    /\ aRet.msg = "found duplicate label"

\* the messages of the errors of the first pass
FirstPassMessages ==
    {"found empty label", "found duplicate label", "unknown instruction",
     "unexpected argument", "must specify amount to shift", "invalid shift amount",
     "invalid shift amount (must be between 0 and 15, inclusive)",
     "expected data declaration after 'dw'"}

\* line i has a structural error: an empty or duplicate label, an unknown
\* instruction, an extra token, a bad shift amount or a dw without operand
StructuralFault(i) == FaultyAlone(i) \/ DefinesAgain(i)
StructuralFaults == {i \in Lines : StructuralFault(i)}

\* line i uses as address operand a label that no line defines
UndefinedUse(i) == TakesAddress(i) /\ OperandOf(i) \notin DefinedLabels
UndefinedUses == {i \in Lines : UndefinedUse(i)}

\* line k holds a no-operand instruction with an operand, or an
\* address-taking instruction without one
ArityFault(k) ==
    /\ Len(StatementOf(k)) \in {1, 2}
    /\ IsPlainMnemonic(StatementOf(k)[1])
    /\ (PlainMnemonic(StatementOf(k)[1]).kind \in AddrKinds) # (Len(StatementOf(k)) = 2)

\* line k holds a dw whose operand is not a hexadecimal u16
DataFault(k) ==
    /\ Len(StatementOf(k)) = 2
    /\ StatementOf(k)[1] = <<"d", "w">>
    /\ ~from_str_radix16(StatementOf(k)[2]).ok

\* C23: a source that uses an undefined label fails with an Asm error.  When
\* some line has a structural error the first pass reports the first such
\* line, wherever the undefined use is; "label is undefined" is reported only
\* when no line has a structural error, at the line of the first undefined
\* use, and it is what assemble reports unless an earlier statement has
\* another error of the second pass.
C23_UndefinedLabelAfterFirstPass ==
    LET sf == StructuralFaults
        uu == UndefinedUses
    IN
    /\ (Returned1 /\ uu # {}) => aRet.res = "Asm"
    /\ (aStage # "idle" /\ sf # {}) =>
          /\ aStage = "done"
          /\ aRet.res = "Asm"
          /\ aRet.msg \in FirstPassMessages
          /\ aRet.line = Least(sf)
    /\ (Returned1 /\ aRet.msg = "label is undefined") =>
          /\ sf = {}
          /\ uu # {}
          /\ aRet.line = Least(uu)
    /\ (Returned1 /\ sf = {} /\ uu # {}) =>
          /\ aRet.line <= Least(uu)
          /\ (\A k \in 1 .. (Least(uu) - 1) : ~ArityFault(k) /\ ~DataFault(k)) =>
                (aRet.line = Least(uu) /\ aRet.msg = "label is undefined")

\* the undefined z is used on line 1 and the unknown instruction is on
\* line 3: line 3 is reported
C23_Witness ==
    /\ aSrc = << <<"j", "m", "p", " ", "z">>, <<"a", ":", " ", "h", "a", "l", "t">>,
                 <<"b", "o", "g", "u", "s">> >>
    /\ FailedAt(3)
    /\ aRet.msg = "unknown instruction"

\* line k has some error, of the first pass or of the second
AnyFault(k) == StructuralFault(k) \/ ArityFault(k) \/ DataFault(k) \/ UndefinedUse(k)

\* C24 (as stated): an operand given to halt, readH, readC, printH, printC,
\* not or nop, or no operand given to an address-taking instruction, is an
\* error of the first pass: when it is on the first line that has any
\* error, assemble reports that line, whatever the later lines hold.
C24_ArityErrorsInFirstPass ==
    Returned1 =>
        \A i \in Lines :
            (ArityFault(i) /\ \A k \in 1 .. (i - 1) : ~AnyFault(k)) => FailedAt(i)

\* C24 (amended): a wrong number of operands is an error of the second
\* pass.  It is reported, at its line, only when no line of the source has a
\* structural error and no earlier statement has an error; when a structural
\* error is on a later line, assemble reports that later line.
C24_ArityErrorsInSecondPass ==
    /\ (Returned1 /\ aRet.msg \in {"unexpected argument to", "expected argument to"}) =>
          /\ StructuralFaults = {}
          /\ ArityFault(aRet.line)
          /\ \A k \in 1 .. (aRet.line - 1) : ~AnyFault(k)
    /\ Returned1 =>
          \A i \in Lines :
              (ArityFault(i) /\ \A k \in 1 .. (i - 1) : ~AnyFault(k)) =>
                  IF StructuralFaults = {}
                  THEN /\ FailedAt(i)
                       /\ aRet.msg = IF Len(StatementOf(i)) = 2 THEN "unexpected argument to"
                                     ELSE "expected argument to"
                  ELSE /\ FailedAt(Least(StructuralFaults))
                       /\ aRet.line > i
                       /\ aRet.msg \in FirstPassMessages

\* halt with an operand on line 1, an unknown instruction on line 2: line 2
\* is reported
C24_Witness ==
    /\ aSrc = << <<"h", "a", "l", "t", " ", "x">>, <<"b", "o", "g", "u", "s">> >>
    /\ FailedAt(2)
    /\ aRet.msg = "unknown instruction"

\* line i holds a dw statement with its operand
DwLine(i) == Len(StatementOf(i)) = 2 /\ StatementOf(i)[1] = <<"d", "w">>

\* line i is reached by the second pass with no error before it
FirstFaultOrNone(i) == StructuralFaults = {} /\ \A k \in 1 .. (i - 1) : ~AnyFault(k)

RECURSIVE HexNumber(_)
HexNumber(d) ==
    IF d = <<>> THEN 0
    ELSE HexNumber(SubSeq(d, 1, Len(d) - 1)) * 16 + HexVal(d[Len(d)])

FourHexDigits(t) == Len(t) = 4 /\ \A k \in 1 .. 4 : IsHexDigit(t[k])

\* C25 (as stated): a dw statement is accepted only when its operand is
\* exactly 4 hexadecimal digits, and then emits that word; any other operand
\* makes assemble fail with an Asm error at the statement's line.
C25_DwTakesExactlyFourDigits ==
    Returned1 =>
        \A i \in Lines :
            (DwLine(i) /\ FirstFaultOrNone(i)) =>
                IF FourHexDigits(OperandOf(i))
                THEN /\ ~FailedAt(i)
                     /\ Assembled => WordOfLine(i) = HexNumber(OperandOf(i))
                ELSE FailedAt(i)

\* t without the "+" it may start with
Unsigned(t) == IF t # <<>> /\ t[1] = "+" THEN SubSeq(t, 2, Len(t)) ELSE t

\* t is one or more hexadecimal digits, after an optional "+", of a value
\* that fits 16 bits
HexWord(t) ==
    /\ Unsigned(t) # <<>>
    /\ \A k \in 1 .. Len(Unsigned(t)) : IsHexDigit(Unsigned(t)[k])
    /\ HexNumber(Unsigned(t)) < WordMod

\* C25 (amended): a dw statement is accepted when its operand is one or more
\* hexadecimal digits, optionally preceded by "+", whose value fits 16 bits,
\* and then emits that value; any other operand makes assemble fail in the
\* second pass with an Asm error at the statement's line.
C25_DwTakesAHexWord ==
    Returned1 =>
        \A i \in Lines :
            (DwLine(i) /\ FirstFaultOrNone(i)) =>
                IF HexWord(OperandOf(i))
                THEN /\ ~FailedAt(i)
                     /\ Assembled => WordOfLine(i) = HexNumber(Unsigned(OperandOf(i)))
                ELSE /\ FailedAt(i)
                     /\ aRet.msg = "invalid data declaration (must be a hexadecimal word)"

\* "dw +5" and "dw 00001" assembled to the words 5 and 1
C25_Witness ==
    /\ Assembled
    /\ aSrc = << <<"d", "w", " ", "+", "5">>, <<"d", "w", " ", "0", "0", "0", "0", "1">> >>
    /\ aRet.data = <<5, 1>>

\* assemble has been called a second time with the same text
AssembledAgain == aAgain # NoProgram

ShiftLine(i) == HoldsStatement(i) /\ IsShiftMnemonic(StatementOf(i)[1])

RECURSIVE DecNumber(_)
DecNumber(d) ==
    IF d = <<>> THEN 0
    ELSE DecNumber(SubSeq(d, 1, Len(d) - 1)) * 10
            + ((CHOOSE v \in 1 .. 10 : DecDigits[v] = d[Len(d)]) - 1)

\* t is a decimal number: one or more decimal digits after an optional "+"
Decimal(t) == Unsigned(t) # <<>> /\ \A k \in 1 .. Len(Unsigned(t)) : IsDecDigit(Unsigned(t)[k])

\* the shift statement on line i has one operand, a decimal number below 16
GoodAmount(i) ==
    /\ Len(StatementOf(i)) = 2
    /\ Decimal(OperandOf(i))
    /\ DecNumber(Unsigned(OperandOf(i))) < 16

ShiftBits(ins) ==
    CASE ins = <<"s", "h", "i", "f", "t", "L">> -> 0
      [] ins = <<"s", "h", "i", "f", "t", "R">> -> 1024
      [] ins = <<"r", "o", "t", "L">> -> 2048
      [] ins = <<"r", "o", "t", "R">> -> 3072

\* C29: a shift statement is accepted only with a decimal amount in 0..15,
\* which is emitted in the low 4 bits of its word; a missing, non-numeric or
\* larger amount is refused by the first pass with an Asm error at that line,
\* whatever errors of the second pass the earlier lines hold.
C29_ShiftAmountCheckedInFirstPass ==
    \A i \in Lines :
        ShiftLine(i) =>
            /\ (aStage # "idle" /\ ~GoodAmount(i) /\ \A k \in 1 .. (i - 1) : ~StructuralFault(k)) =>
                  /\ aStage = "done"
                  /\ FailedAt(i)
                  /\ aRet.msg \in FirstPassMessages
                  /\ Len(StatementOf(i)) = 1 => aRet.msg = "must specify amount to shift"
                  /\ (Len(StatementOf(i)) = 2 /\ ~Decimal(OperandOf(i))) =>
                        aRet.msg = "invalid shift amount"
                  /\ (Len(StatementOf(i)) = 2 /\ Decimal(OperandOf(i))) =>
                        aRet.msg = "invalid shift amount (must be between 0 and 15, inclusive)"
            /\ Assembled =>
                  /\ GoodAmount(i)
                  /\ WordOfLine(i) % 16 = DecNumber(Unsigned(OperandOf(i)))
                  /\ WordOfLine(i) = 8192 + ShiftBits(StatementOf(i)[1])
                                        + DecNumber(Unsigned(OperandOf(i)))

\* a use of the undefined z on line 1, shiftL 16 on line 2: line 2 is
\* reported, by the first pass
C29_Witness ==
    /\ aSrc = << <<"j", "m", "p", " ", "z">>, <<"s", "h", "i", "f", "t", "L", " ", "1", "6">> >>
    /\ FailedAt(2)
    /\ aRet.msg = "invalid shift amount (must be between 0 and 15, inclusive)"

(***************************************************************************)
(* Long programs (LongAsmSpec)                                             *)
(***************************************************************************)
StatementCount == Cardinality({i \in Lines : HoldsStatement(i)})

\* C26: leaving aside the sources refused with an Asm error, assemble fails
\* with ProgramTooLong exactly when the source holds more than 65535
\* statements; a source of up to 65535 statements, so one of 4097 to 65535,
\* assembles to as many words, and it is the construction of a Simulator
\* from more than 4096 words that is refused.
C26_TooLongPast65535Statements ==
    (Returned1 /\ aRet.res # "Asm") =>
        \A n \in {StatementCount} :
            /\ (aRet.res = "ProgramTooLong") <=> (n > U16Max)
            /\ n <= U16Max => (aRet.res = "Ok" /\ Len(aRet.data) = n)
            /\ n \in (MemSize + 1) .. U16Max =>
                  load_instructions(aRet.data, Sim).res = "ProgramTooLong"

\* 65535 nop lines and a labelled halt after them: ProgramTooLong
C26_Witness ==
    /\ Returned1
    /\ aRet.res = "ProgramTooLong"
    /\ Len(aSrc) = U16Max + 1
    /\ aSrc[U16Max + 1] = <<"x", ":", " ", "h", "a", "l", "t">>

\* C27: in every successfully assembled program every label used as an
\* address operand has a value in 0..4095, and the 12-bit address field of
\* the emitted word equals that value.
C27_OperandsAreInRange ==
    Assembled =>
        \A i \in Lines :
            TakesAddress(i) =>
                /\ labels[OperandOf(i)] \in 0 .. (MemSize - 1)
                /\ from_u16(WordOfLine(i)).arg = labels[OperandOf(i)]

(***************************************************************************)
(* The fields of an encoded instruction (CodecSpec)                        *)
(***************************************************************************)
Encoded == cTrace = <<"to_u16">>

\* the opcode of each kind of instruction
Opcode(kind) ==
    CASE kind = "Halt" -> 0   [] kind = "Io" -> 1     [] kind = "Shift" -> 2
      [] kind = "Load" -> 3   [] kind = "Store" -> 4  [] kind = "Add" -> 5
      [] kind = "Sub" -> 6    [] kind = "And" -> 7    [] kind = "Or" -> 8
      [] kind = "Xor" -> 9    [] kind = "Not" -> 10   [] kind = "Nop" -> 11
      [] kind = "Jmp" -> 12   [] kind = "Jmpe" -> 13  [] kind = "Jmpl" -> 14
      [] kind = "Brl" -> 15

\* x with its address reduced mod 4096, or its shift amount mod 16
Reduced(x) ==
    IF x.kind \in AddrKinds THEN Addr(x.kind, x.arg % MemSize)
    ELSE IF x.kind = "Shift" THEN Shift(x.op, x.arg % 16)
    ELSE x

\* C30: to_u16 masks its fields.  An address-taking instruction encodes as
\* the same instruction with its address mod 4096, a shift as the same shift
\* with its amount mod 16; the low 12 bits of the first and the low 4 bits of
\* the second hold the reduced value, and the top 4 bits of every encoded
\* word are the opcode of its kind.
C30_EncodeMasksItsFields ==
    Encoded =>
        /\ cWord = to_u16(Reduced(cIns0))
        /\ cWord \div MemSize = Opcode(cIns0.kind)
        /\ cIns0.kind \in AddrKinds => cWord % MemSize = cIns0.arg % MemSize
        /\ cIns0.kind = "Shift" => cWord % 16 = cIns0.arg % 16

\* load 0xffff encoded to 0x3fff
C30_Witness == Encoded /\ cIns0 = Addr("Load", 65535) /\ cWord = 16383

(***************************************************************************)
(* Halted machines, the range of the program counter and straight runs     *)
(* (Spec).                                                                 *)
(***************************************************************************)
\* C31: a step() call that fails with Halted neither fetches nor advances:
\* pc, ir, acc, the memory and the halted flag are what they were before the
\* call, so that the step() call after it returns Halted again.
C31_HaltedStepChangesNothing ==
    /\ last.res = "Halted" =>
          /\ pc = last.pc0
          /\ acc = last.acc0
          /\ ir = last.ir0
          /\ halted = last.halted0
          /\ last.changed = {}
          /\ ~last.fetched
    /\ (prev.res = "Halted" /\ Called(last)) => last.res = "Halted"

\* the step() call c executed an instruction that reads or writes the cell
\* its operand names
UsesOperand(c) ==
    c.fetched /\ Decoded(c).kind \in {"Load", "Store", "Add", "Sub", "And", "Or", "Xor"}

\* C33: in every state reached from a freshly loaded simulator by step() and
\* run() calls the program counter is at most 4096, and every address a
\* step() call reads or writes (the cell it fetches from, the cell its
\* operand names, every cell it changes) is in 0 .. 4095.
C33_AddressesStayInRange ==
    /\ pc \in 0 .. MemSize
    /\ DOMAIN memory \subseteq Addrs
    /\ last.fetched => last.pc0 \in Addrs
    /\ UsesOperand(last) => Decoded(last).arg \in Addrs
    /\ last.changed \subseteq Addrs
    /\ (Called(last) /\ last.pc0 >= MemSize) => (~last.fetched /\ pc = last.pc0)

\* the instruction at 4095 was executed and left the program counter at 4096
C33_Witness ==
    /\ last.fetched
    /\ last.pc0 = MemSize - 1
    /\ pc = MemSize

\* the run() call in progress or just returned took no jump and met no
\* failing read or write
StraightRun == ret.call = "run" /\ ~ret.jumped /\ ret.res \notin {"UserInput", "Io"}

\* C34: a run() during which no jump is taken, its input and output working,
\* makes at most 4097 step() calls: every step that executes an instruction
\* leaves the program counter one past the cell it fetched, so that after n
\* steps the run started at pc0 is at pc0 + n, which the fetch bounds by
\* 4096.  It returns Ok on a halt, OutOfBounds on its step number
\* 4097 - pc0, or Halted at once on a machine that was halted before.
C34_StraightRunIsBounded ==
    StraightRun =>
        /\ ret.n <= (MemSize + 1) - ret.pc0
        /\ ret.n <= MemSize + 1
        /\ mode = "run" => (pc = ret.pc0 + ret.n /\ (ret.n >= 1 => ~halted))
        /\ mode = "idle" =>
              \/ ret.res = "Ok" /\ halted /\ pc = ret.pc0 + ret.n
              \/ ret.res = "OutOfBounds" /\ pc = MemSize /\ ret.n = (MemSize + 1) - ret.pc0
              \/ ret.res = "Halted" /\ halted /\ ret.n = 1 /\ pc = ret.pc0 + 1

\* a run() entered at 4095 executed that cell and returned OutOfBounds from
\* its second step
C34_Witness ==
    /\ StraightRun
    /\ mode = "idle"
    /\ ret.pc0 = MemSize - 1
    /\ ret.res = "OutOfBounds"
    /\ ret.n = 2

\* C35: the cells from len on that no step has changed hold the zero fill,
\* and a step() of a running machine that fetches such a cell halts the
\* machine and returns Ok(true) instead of failing; so the first step() of a
\* simulator loaded with the empty program halts it.
C35_ZeroFillHalts ==
    /\ \A a \in DOMAIN memory : a < len \/ a \in last.written
    /\ (last.fetched /\ ~last.halted0 /\ last.pc0 >= len /\ last.pc0 \notin prev.written) =>
          /\ last.word0 = 0
          /\ Decoded(last) = Halt
          /\ last.res = "Ok(true)"
          /\ halted
          /\ pc = last.pc0 + 1
    /\ (len = 0 /\ Called(last) /\ prev = NoStep) => (last.res = "Ok(true)" /\ halted)

\* a program of two words stored into cell 2 and executed what it stored
\* there; the step() after it fetched the untouched cell 3 and halted
C35_Witness ==
    /\ len = 2
    /\ prev.written = {2}
    /\ last.pc0 = 3
    /\ last.res = "Ok(true)"
    /\ halted

(***************************************************************************)
(* Writing out a simulator that has run (DumpSpec).                        *)
(***************************************************************************)
\* the line l is the word w as four lower-case hexadecimal digits
IsHexLineOf(l, w) ==
    /\ Len(l) = 5
    /\ l[5] = "\n"
    /\ \A j \in 1 .. 4 : \E d \in 1 .. 16 : HexDigits[d] = l[j]
    /\ HexNumber(SubSeq(l, 1, 4)) = w

\* C36: len stays the number of words loaded at construction whatever steps
\* and runs are made; to_binary writes the first len words of the memory as
\* it is when called, low byte first, and to_hex writes them one per line:
\* a word stored at len or above is not written, a word stored below len is
\* written with the value the store left.
C36_WritersEmitLoadedLength ==
    /\ len = Len(lArg.data)
    /\ ret.call = "to_binary" =>
          /\ lFile.kind = "bytes"
          /\ Len(lFile.data) = 2 * len
          /\ \A a \in 0 .. (len - 1) :
                lFile.data[(2 * a) + 1] + (256 * lFile.data[(2 * a) + 2]) = Mem(memory, a)
    /\ ret.call = "to_hex" =>
          /\ lFile.kind = "lines"
          /\ Len(lFile.data) = len
          /\ \A a \in 0 .. (len - 1) : IsHexLineOf(lFile.data[a + 1], Mem(memory, a))

\* the program that stores 0x0abc into cells 4 and 2 was run to its halt and
\* written by to_hex: four lines, the third being the stored word
C36_Witness ==
    /\ ret.call = "to_hex"
    /\ lArg.data = StoreProgram
    /\ halted
    /\ last.written = {2, 4}
    /\ Mem(memory, 4) = 2748
    /\ Len(lFile.data) = 4
    /\ lFile.data[3] = <<"0", "a", "b", "c", "\n">>

(***************************************************************************)
(* Malformed lines of a hexadecimal file (LoadSpec).                       *)
(***************************************************************************)
\* the line l, trimmed, holds a word to read and does not begin with four
\* hexadecimal digits
MalformedHexLine(l) ==
    LET t == Trim(l)
    IN  /\ t # <<>>
        /\ ~IsComment(t)
        /\ \/ Len(t) < 4
           \/ \E j \in 1 .. 4 : ~IsHexDigit(t[j])

\* C37: from_hex returns an error value, and does not crash, when a line of
\* its input that is neither blank nor a comment does not begin with four
\* hexadecimal digits, lines of fewer than four characters included.
C37_FromHexRefusesMalformedLines ==
    (lTrace = <<"from_hex">> /\ \E j \in 1 .. Len(lArg.data) : MalformedHexLine(lArg.data[j])) =>
        ret.res \in {"UserInput", "ProgramTooLong"}

(***************************************************************************)
(* Operand counts and trailing labels (AsmSpec).                           *)
(***************************************************************************)
\* line i holds more than one token after its mnemonic
ExtraToken(i) == Len(StatementOf(i)) >= 3

\* C32: a source in which a no-operand instruction (halt, readH, readC,
\* printH, printC, not, nop) has an operand, an address-taking instruction
\* has none, or a line has more than one token after the mnemonic, fails
\* with an Asm error.  The error cites that line, counted from 1, when it is
\* the first to be reported: for the extra token, when no earlier line has a
\* structural error; for the wrong operand count, when no line has a
\* structural error and no earlier statement has any error.
C32_OperandCountIsChecked ==
    Returned1 =>
        \A i \in Lines :
            /\ (ArityFault(i) \/ ExtraToken(i)) => (aRet.res = "Asm" /\ aRet.line \in Lines)
            /\ ExtraToken(i) => aRet.line <= i
            /\ (ExtraToken(i) /\ \A k \in 1 .. (i - 1) : ~StructuralFault(k)) =>
                  /\ FailedAt(i)
                  /\ ~DefinesLabel(i) => aRet.msg = "unexpected argument"
            /\ (ArityFault(i) /\ FirstFaultOrNone(i)) =>
                  /\ FailedAt(i)
                  /\ aRet.msg = IF Len(StatementOf(i)) = 2 THEN "unexpected argument to"
                                ELSE "expected argument to"

\* a load without operand on line 2, after a well-formed line: line 2 is
\* reported
C32_Witness ==
    /\ aSrc = << <<"a", ":", " ", "h", "a", "l", "t">>, <<"l", "o", "a", "d">> >>
    /\ FailedAt(2)
    /\ aRet.msg = "expected argument to"

\* line i holds a label and no statement, and no line after it holds one
TrailingLabel(i) ==
    /\ DefinesLabel(i)
    /\ \A j \in i .. Len(aSrc) : ~HoldsStatement(j)

\* C38: a label with no statement after it is accepted: its line is refused
\* only for an empty or duplicate label.  When no line of the source has an
\* error, assembly succeeds, the label is bound to the number of statements
\* of the source, one past the address of the last word emitted, and the
\* statements that name it hold that address.
C38_TrailingLabelIsBound ==
    Returned1 =>
        \A i \in Lines :
            TrailingLabel(i) =>
                /\ FailedAt(i) => StructuralFault(i)
                /\ (\A k \in Lines : ~AnyFault(k)) =>
                      /\ Assembled
                      /\ LabelOf(i) \in DOMAIN labels
                      /\ labels[LabelOf(i)] = Len(aRet.data)
                      /\ labels[LabelOf(i)] = Cardinality({k \in Lines : HoldsStatement(k)})
                      /\ \A k \in Lines :
                            (TakesAddress(k) /\ OperandOf(k) = LabelOf(i)) =>
                                from_u16(aRet.data[StatementsBefore(k) + 1]).arg
                                    = Len(aRet.data)

\* "jmp init", then "init:" and a comment line: init is 1 and the jump goes
\* to address 1
C38_Witness ==
    /\ Assembled
    /\ aSrc = << <<"j", "m", "p", " ", "i", "n", "i", "t">>, <<"i", "n", "i", "t", ":">>, <<"/", "/", " ", "c">> >>
    /\ labels[<<"i", "n", "i", "t">>] = 1
    /\ aRet.data = <<49153>>

(***************************************************************************)
(* The status command of the debugger (StatusSpec) and the instructions it *)
(* follows (CodecSpec).                                                    *)
(***************************************************************************)
\* C39: the status command terminates for every memory image and every
\* program counter below 4096: once entered, its chase of jump and branch
\* targets comes to an end, also when the targets form a cycle.
C39_StatusTerminates == (mode = "status") ~> (mode = "idle")

\* the instruction in hand was produced by from_u16
JustDecoded == cTrace # <<>> /\ cTrace[Len(cTrace)] = "from_u16"

StatusNeverPanics == dbg.res # "panic"

=============================================================================
